---- MODULE Spec2Model ----
(***************************************************************************)
(* A model of the splash page's logo controller (InteractiveNeeedaLogo):   *)
(* the scale controller of _scale.js with its cancellable animation, and   *)
(* the preloader sequence of runPreloader with the browser's event loop    *)
(* (rendering frames, timers, resize events) it runs on.                   *)
(*                                                                         *)
(* Numbers: times are milliseconds; a scale factor s is the integer        *)
(* s * ScaleOne (fixed point), so 0.5 is ScaleHalf and 1 is ScaleOne.      *)
(***************************************************************************)
EXTENDS Integers, Sequences, FiniteSets, TLC

VARIABLES
    \* ---- the browser's event loop
    now,                \* performance.now(), ms
    raf,                \* callbacks requested with requestAnimationFrame, in order
    frameQ,             \* callbacks of the frame being rendered that have not run yet
    timers,             \* pending setTimeout timers
    \* ---- scale controller (_scale.js, _compact.js)
    currentGroupScale,  \* this.currentGroupScale
    logoCompact,        \* this.logoCompact
    nodeScale,          \* the scale(...) factor in each group's style.transform
    scaleAnim,          \* this._scaleAnim: token of the animation the handle cancels, 0 = none
    scaleAnimCounter,   \* this._scaleAnimCounter
    anims,              \* every animation started so far, indexed by its token
    calls,              \* history: the animateGroupScaleTransform calls made so far
    \* ---- environment of the logo controller
    viewport,           \* window.innerWidth / innerHeight
    reducedMotion,      \* matchMedia('(prefers-reduced-motion: reduce)').matches
    bodyClasses,        \* document.body.classList
    resizes,            \* resize events delivered so far
    \* ---- logo controller (logo.js, _layout.js, _drag.js, _trail.js)
    viewBox,            \* the svg's viewBox, as the window size it was synced to
    currentLayoutMode,  \* this.currentLayoutMode
    resizeAttached,     \* attachResize() has installed the resize listener
    dragRegistry,       \* this.dragRegistry: groups that setupDrag registered
    dragEnabled,        \* whether a group's drag listeners are attached
    centre,             \* where each group's centre is (pose and the window it was computed for)
    trailD,             \* the d attribute of the two trail paths
    trailSW,            \* the stroke-width attribute of the trail paths
    ltw,                \* tweens of animateLayoutTransition, per group
    base,               \* this.baseCenters: the centre of v1 snapshotted by init()
    \* ---- preloader (runPreloader, _animation-flow.js)
    pc,                 \* where runPreloader is suspended
    stab,               \* locals of waitForViewportStability
    tw,                 \* tweens of each step, per group: none / running / resolved
    twStart,            \* start time of the current step's tweens
    twTarget,           \* target of each group's running tween
    midway,             \* number of logo:midway events dispatched
    visited,            \* history: the preloader states reached so far
    cur,                \* runPreloader's `cur`: v1's centre and the svg's size when measured
    \* ---- translate engine on one element (_animation-engine.js, _scale.js, _drag.js)
    el,                 \* the element: cached offset, translate and scale parts of style.transform
    pivot,              \* centre of the element's box relative to its transform origin
    tween,              \* the animateTranslate call in progress
    meta,               \* groupsMeta entry of a scale animation: tx, ty, old centre
    drag,               \* locals of setupDrag: dragging, startX, startY, base
    hist,               \* history: the last operation, its arguments and the element before it
    ops,                \* operations applied so far
    \* ---- drag of the three groups (_drag.js)
    nodes,              \* each group's node, as `el`
    drags,              \* each group's setupDrag locals: dragging, startX, startY, base
    held,               \* history: whether a pointer is down on the group, where it went down
                        \* and the group's offset then
    dhist,              \* history: the last pointer event or setDragEnabled call
    \* ---- radial ring (RadialBox in _countdown.js)
    rad,                \* the RadialBox instance, the DOM targets it found and the custom
                        \* properties it has written
    computed,           \* getComputedStyle: the buttons' widths, --kiss and --a0
    rhist,              \* history: the last call or event and the properties before it
    \* ---- DOM targets of the page (querySelector results held by the controllers)
    dom,                \* which targets exist, and what the last method call did to them
    \* ---- countdown dialog (CountdownDialog in _countdown.js)
    dialog              \* the controller: target, timer, the clock, the digits shown

envVars   == <<now, raf, frameQ, timers>>
scaleVars == <<currentGroupScale, logoCompact, nodeScale, scaleAnim, scaleAnimCounter,
               anims, calls>>
logoVars  == <<viewport, reducedMotion, bodyClasses, resizes, viewBox, currentLayoutMode,
               resizeAttached, dragRegistry, dragEnabled, centre, trailD, trailSW, ltw, base>>
preVars   == <<pc, stab, tw, twStart, twTarget, midway, visited, cur>>
engVars   == <<el, pivot, tween, meta, drag, hist, ops>>
dragVars  == <<nodes, drags, held, dhist>>
radVars   == <<rad, computed, rhist>>
restVars  == <<dragVars, radVars, dom, dialog>>
vars      == <<envVars, scaleVars, logoVars, preVars, engVars, restVars>>

----------------------------------------------------------------------------
\* Bounds of the model
MaxCalls == 3          \* animateGroupScaleTransform calls in one behaviour

\* The three groups v1, v2, v3 (constructor: this.groups)
Groups == {1, 2, 3}

\* Fixed point: the scale factor 1 and the factor 0.5 of compact mode
ScaleOne  == 1000
ScaleHalf == ScaleOne \div 2

\* A rendering frame follows the previous one by FrameMs (or, late, by twice that)
FrameMs == 16

\* Durations a caller passes to animateGroupScaleTransform (ms)
ScaleDurations == {10, 40, 70}

\* Targets the program passes: setLogoCompact uses 0.5 and 1 only
ScaleTargets == {ScaleHalf, ScaleOne}

\* The one element of a set. An operator that reads its argument more than once takes it
\* as { body : s \in {given} }, so that the argument is worked out once
Only(S) == CHOOSE x \in S : TRUE

Abs(given) ==
    Only({ IF x < 0 THEN -x ELSE x : x \in {given} })

----------------------------------------------------------------------------
\* Easing (per mille in, per mille out): t and the result are fractions * 1000.

\* Easing.power2InOut: t < 0.5 ? 2t^2 : 1 - 2(1-t)^2
power2InOut(given) ==
    Only({
    IF t < 500 THEN (2 * t * t) \div 1000
               ELSE 1000 - (2 * (1000 - t) * (1000 - t)) \div 1000 : t \in {given} })

\* (mutant) power3InOut whose second half lacks the division by 2
power3InOutUnhalved(given) ==
    Only({
    IF t < 500 THEN (4 * t * t * t) \div 1000000
               ELSE 1000 - ((2000 - 2 * t) * (2000 - 2 * t) * (2000 - 2 * t)) \div 1000000 : t \in {given} })

\* Easing.power3InOut: t < 0.5 ? 4t^3 : 1 - (-2t + 2)^3 / 2
power3InOut(given) ==
    Only({
    IF t < 500 THEN (4 * t * t * t) \div 1000000
               ELSE 1000 - ((2000 - 2 * t) * (2000 - 2 * t) * (2000 - 2 * t)) \div 2000000 : t \in {given} })

\* clamp01 of (num / den), per mille
clamp01(num, den) ==
    IF num < 0 THEN 0 ELSE IF num > den THEN 1000 ELSE (num * 1000) \div den

----------------------------------------------------------------------------
\* requestAnimationFrame / cancelAnimationFrame

RafCb(kind, id) == [k |-> kind, id |-> id]

RemoveCb(q, cb) == SelectSeq(q, LAMBDA c : c # cb)

InSeq(q, cb) == \E i \in 1..Len(q) : q[i] = cb

\* The scale animation `a` has a frame callback that will still run
ScalePending(a) == InSeq(raf, RafCb("scale", a)) \/ InSeq(frameQ, RafCb("scale", a))

----------------------------------------------------------------------------
\* Scale controller: animateGroupScaleTransform (_scale.js)

\* (mutant) cancel() without its `if (settled) return` guard
CancelsEvenSettled(as, h) == h # 0

\* The handle's cancel() does nothing once the animation has settled
Cancels(as, h) == h # 0 /\ ~as[h].settled

\* (mutant) cancel() marks the animation cancelled but does not resolve its promise
CancelWithoutResolve(as, h) ==
    IF h # 0 /\ ~as[h].settled THEN [as EXCEPT ![h].cancelled = TRUE] ELSE as

\* cancel(): anim.cancelled = true and resolveFn() resolves the previous promise
CancelPrevious(as, h) ==
    IF Cancels(as, h)
    THEN [as EXCEPT ![h].cancelled = TRUE,
                    ![h].resolves = @ + 1,
                    ![h].resolvedBy = IF @ = "none" THEN "cancel" ELSE @]
    ELSE as

\* (mutant) cancel() without cancelAnimationFrame
CancelFrameForgotten(q, as, h) == q

\* cancel(): cancelAnimationFrame(anim.rafId)
CancelFrame(q, as, h) ==
    IF Cancels(as, h) THEN RemoveCb(q, RafCb("scale", h)) ELSE q

\* cancel(): this._scaleAnim = null
HandleAfterCancel(as, h) == IF Cancels(as, h) THEN 0 ELSE h

\* Math.abs(startScale - targetScale) < 0.0001
SameScale(a, b) == Abs(a - b) * 10000 < ScaleOne

\* One call animateGroupScaleTransform(targetScale, {duration})
AnimateGroupScaleTransform(targetScale, duration) ==
    LET h          == scaleAnim
        cancelled  == IF Cancels(anims, h) THEN h ELSE 0
        as1        == CancelPrevious(anims, h)
        raf1       == CancelFrame(raf, anims, h)
        fq1        == CancelFrame(frameQ, anims, h)
        h1         == HandleAfterCancel(anims, h)
        startScale == currentGroupScale
        token      == scaleAnimCounter + 1
    IN  IF SameScale(startScale, targetScale)
        THEN \* return Promise.resolve()
             /\ anims' = as1
             /\ raf' = raf1
             /\ frameQ' = fq1
             /\ scaleAnim' = h1
             /\ calls' = Append(calls, [target |-> targetScale, token |-> 0,
                                         cancelled |-> cancelled])
             /\ UNCHANGED <<scaleAnimCounter>>
        ELSE /\ scaleAnimCounter' = token
             /\ anims' = Append(as1, [token |-> token,
                                      startScale |-> startScale,
                                      targetScale |-> targetScale,
                                      start |-> now,
                                      duration |-> duration,
                                      cancelled |-> FALSE,
                                      settled |-> FALSE,
                                      resolves |-> 0,
                                      resolvedBy |-> "none",
                                      frames |-> 0])
             /\ raf' = Append(raf1, RafCb("scale", token))
             /\ frameQ' = fq1
             /\ scaleAnim' = token
             /\ calls' = Append(calls, [target |-> targetScale, token |-> token,
                                         cancelled |-> cancelled])

\* A caller starts a scale animation between two frames
AnimateCall ==
    /\ frameQ = <<>>
    /\ Len(calls) < MaxCalls
    /\ \E targetScale \in ScaleTargets, duration \in ScaleDurations :
          AnimateGroupScaleTransform(targetScale, duration)
    /\ UNCHANGED <<now, timers, currentGroupScale, logoCompact, nodeScale, logoVars, preVars,
                   engVars, restVars>>

\* _applyAnimatedScaleFrame for every group: scale(s) is written on each node
ApplyAnimatedScaleFrame(s) == [g \in Groups |-> s]

\* Only the latest, uncancelled animation commits currentGroupScale
MayCommit(an) == ~an.cancelled /\ an.token = scaleAnimCounter

\* (mutant) every frame is taken for the last one
FinalFrameAlways(t) == TRUE

\* `if (t < 1) { anim.rafId = requestAnimationFrame(step); return; }`: step goes on to the
\* commit only on the frame where t has reached 1
FinalFrame(t) == t >= 1000

\* step(now): one frame callback of the animation with token a
Step ==
    /\ frameQ # <<>>
    /\ Head(frameQ).k = "scale"
    /\ LET a  == Head(frameQ).id
           an == anims[a]
           t  == clamp01(now - an.start, an.duration)
           s  == an.startScale + ((an.targetScale - an.startScale) * power3InOut(t)) \div 1000
       IN  /\ frameQ' = Tail(frameQ)
           /\ IF an.cancelled
              THEN /\ anims' = [anims EXCEPT ![a].settled = TRUE,
                                             ![a].resolves = @ + 1,
                                             ![a].frames = @ + 1]
                   /\ UNCHANGED <<raf, nodeScale, currentGroupScale>>
              ELSE /\ nodeScale' = ApplyAnimatedScaleFrame(s)
                   /\ IF ~FinalFrame(t)
                      THEN /\ raf' = Append(raf, RafCb("scale", a))
                           /\ anims' = [anims EXCEPT ![a].frames = @ + 1]
                           /\ UNCHANGED currentGroupScale
                      ELSE /\ currentGroupScale' =
                                 IF MayCommit(an) THEN an.targetScale ELSE currentGroupScale
                           /\ anims' = [anims EXCEPT ![a].settled = TRUE,
                                                     ![a].resolves = @ + 1,
                                                     ![a].resolvedBy =
                                                         IF @ = "none" THEN "frame" ELSE @,
                                                     ![a].frames = @ + 1]
                           /\ UNCHANGED raf
    /\ UNCHANGED <<now, timers, logoCompact, scaleAnim, scaleAnimCounter, calls, preVars,
                   engVars, restVars>>

\* step(now) of an animation whose promise has no continuation
ScaleStep == Step /\ UNCHANGED logoVars

----------------------------------------------------------------------------
\* The event loop

\* A timer that is due runs before the next frame is rendered
NoTimerDue == \A tm \in timers : tm.due > now

\* A rendering frame begins: the callbacks requested so far will run in it
BeginFrameAfter(dt) ==
    /\ frameQ = <<>>
    /\ raf # <<>>
    /\ NoTimerDue
    /\ now' = now + dt
    /\ frameQ' = raf
    /\ raf' = <<>>
    /\ UNCHANGED timers

BeginFrame == BeginFrameAfter(FrameMs) /\ UNCHANGED <<scaleVars, logoVars, preVars, engVars, restVars>>

\* A frame was dropped: the next one comes after two frame periods
BeginLateFrame ==
    BeginFrameAfter(2 * FrameMs) /\ UNCHANGED <<scaleVars, logoVars, preVars, engVars, restVars>>

----------------------------------------------------------------------------
\* JavaScript numbers. A number is a binary floating-point value: the result of an
\* addition is rounded to Precision significant bits, ties to even (53 bits in the
\* program; the model keeps the rounding and shortens the significand). A number n of
\* the model stands for n px.

Precision == 24

RECURSIVE Pow2(_)
Pow2(n) == IF n = 0 THEN 1 ELSE 2 * Pow2(n - 1)

\* The numbers from here on are 2 apart
Significand == Pow2(Precision)

\* The spacing of the representable numbers around a (a >= 0)
RECURSIVE UlpFrom(_, _)
UlpFrom(a, u) == IF a \div u < Significand THEN u ELSE UlpFrom(a, 2 * u)

\* a >= 0 rounded to the nearest multiple of u, ties to the even one
RoundAt(given, ulp) ==
    Only({ LET q  == a \div u
               r  == a % u
               up == 2 * r > u \/ (2 * r = u /\ q % 2 = 1)
           IN  (IF up THEN q + 1 ELSE q) * u : a \in {given}, u \in {ulp} })

\* Rounding to the nearest representable number
Fl(given) ==
    Only({ IF v < 0 THEN -RoundAt(-v, UlpFrom(-v, 1)) ELSE RoundAt(v, UlpFrom(v, 1))
           : v \in {given} })

\* a + b
Add(a, b) == Fl(a + b)

\* dx * k, with k per mille
MulK(d, k) == Fl((d * k) \div 1000)

----------------------------------------------------------------------------
\* The translate engine (_animation-engine.js) on one element. `store` is the element's
\* entry in __translateStore, `tr` the translate(..px, ..px) part of style.transform and
\* `sc` its scale(..) part, per mille, 0 when the string has none.

XY(x, y) == [x |-> x, y |-> y]

Part(x, y) == [set |-> TRUE, x |-> x, y |-> y]
NoPart     == [set |-> FALSE, x |-> 0, y |-> 0]

\* getTranslate(el): the value returned
GetTranslate(given) ==
    Only({
    IF e.store.set THEN XY(e.store.x, e.store.y)
    ELSE IF e.tr.set THEN XY(e.tr.x, e.tr.y)
    ELSE XY(0, 0) : e \in {given} })

\* getTranslate(el): the element afterwards, the parsed value is cached
GetTranslateCaches(given) ==
    Only({
    IF e.store.set THEN e ELSE [e EXCEPT !.store = Part(GetTranslate(e).x, GetTranslate(e).y)] : e \in {given} })

\* (mutant) setTranslate that rewrites the whole transform string
SetTranslateOnly(e, x, y) == [e EXCEPT !.tr = Part(x, y), !.store = Part(x, y), !.sc = 0]

\* (mutant) setTranslate that forgets the cache
SetTranslateUncached(e, x, y) == [e EXCEPT !.tr = Part(x, y)]

\* setTranslate(el, x, y): translate part rewritten, scale part kept, cache updated
SetTranslate(e, x, y) == [e EXCEPT !.tr = Part(x, y), !.store = Part(x, y)]

\* (mutant) incTranslate that writes the delta as the offset
IncTranslateAbsolute(e, dx, dy) == SetTranslate(GetTranslateCaches(e), dx, dy)

\* incTranslate(el, dx, dy)
IncTranslate(given, dx, dy) ==
    Only({
    LET t == GetTranslate(e)
    IN  SetTranslate(GetTranslateCaches(e), Add(t.x, dx), Add(t.y, dy)) : e \in {given} })

\* _parseTranslate(node.style.transform)
ParseTranslate(given) ==
    Only({ IF e.tr.set THEN XY(e.tr.x, e.tr.y) ELSE XY(0, 0) : e \in {given} })

\* The scale factor the element is rendered with
ScaleOf(given) ==
    Only({ IF e.sc = 0 THEN ScaleOne ELSE e.sc : e \in {given} })

\* Layout of the element: where its transform origin lies in the window, half its size
\* at scale 1 (the element's `half`, HalfSize unless said otherwise)
OriginAt == XY(40, 40)
HalfSize == XY(8, 8)

\* centerOf(el) / _centerOfNode(node): centre of getBoundingClientRect()
CenterOfNode(given) ==
    Only({
    XY(OriginAt.x + (pivot.x * ScaleOf(e)) \div ScaleOne + ParseTranslate(e).x,
       OriginAt.y + (pivot.y * ScaleOf(e)) \div ScaleOne + ParseTranslate(e).y) : e \in {given} })

\* getBoundingClientRect()
BoundingRect(given) ==
    Only({
    LET c  == CenterOfNode(e)
        hw == (e.half.x * ScaleOf(e)) \div ScaleOne
        hh == (e.half.y * ScaleOf(e)) \div ScaleOne
    IN  [left |-> c.x - hw, right |-> c.x + hw, top |-> c.y - hh, bottom |-> c.y + hh] : e \in {given} })

\* SAFE_AREA_PADDING = { desktop: 24, mobile: 24 }
SafeAreaPadding == 24

\* svgRect(): the svg covers the window
SvgRect == [left |-> 0, top |-> 0, right |-> viewport.w, bottom |-> viewport.h]

\* _clampDelta(minEdge, maxEdge, minLimit, maxLimit)
ClampDelta(minEdge, maxEdge, minLimit, maxLimit) ==
    LET d1 == IF minEdge < minLimit THEN Add(0, Add(minLimit, -minEdge)) ELSE 0
    IN  IF maxEdge > maxLimit THEN Add(d1, Add(maxLimit, -maxEdge)) ELSE d1

\* (mutant) clampGroupBox that rewrites the offset also when there is nothing to correct
ClampAlwaysWrites(dx, dy) == TRUE

\* if (dx || dy)
ClampWrites(dx, dy) == dx # 0 \/ dy # 0

\* clampGroupBox(groupNode)
ClampGroupBoxNode(given) ==
    Only({
    LET g  == BoundingRect(e)
        dx == ClampDelta(g.left, g.right, SvgRect.left + SafeAreaPadding,
                         SvgRect.right - SafeAreaPadding)
        dy == ClampDelta(g.top, g.bottom, SvgRect.top + SafeAreaPadding,
                         SvgRect.bottom - SafeAreaPadding)
        t  == GetTranslate(e)
    IN  IF ClampWrites(dx, dy)
        THEN SetTranslate(GetTranslateCaches(e), Add(t.x, dx), Add(t.y, dy))
        ELSE e : e \in {given} })

\* (mutant) the scale written without moving the centre back
WriteScaleOnly(e, tx, ty, old, s) == [e EXCEPT !.tr = Part(tx, ty), !.sc = s]

\* The two writes of style.transform in _applyImmediateScaleToNode and
\* _applyAnimatedScaleFrame: translate(tx, ty) scale(s), then, if the centre has moved
\* away from `old`, translate(tx + dx, ty + dy) scale(s). __translateStore is not touched
WriteScaleKeepingCentre(e, tx, ty, old, s) ==
    LET e1  == [e EXCEPT !.tr = Part(tx, ty), !.sc = s]
        neu == CenterOfNode(e1)
        dx  == Add(old.x, -neu.x)
        dy  == Add(old.y, -neu.y)
    IN  IF dx # 0 \/ dy # 0
        THEN [e1 EXCEPT !.tr = Part(Add(tx, dx), Add(ty, dy))]
        ELSE e1

\* _applyImmediateScaleToNode(node, newScale)
ApplyImmediateScaleToNode(given, newScale) ==
    Only({
    WriteScaleKeepingCentre(e, ParseTranslate(e).x, ParseTranslate(e).y, CenterOfNode(e),
                            newScale) : e \in {given} })

\* _applyAnimatedScaleFrame(meta, s)
ApplyAnimatedScaleFrameNode(e, m, s) == WriteScaleKeepingCentre(e, m.tx, m.ty, m.old, s)

\* No animateTranslate call has been made
IdleTween == [status |-> "none", sx |-> 0, sy |-> 0, dx |-> 0, dy |-> 0, start |-> 0, dur |-> 0,
              ease |-> "power3.inOut", t |-> 0, k |-> 0, pt |-> 0, pk |-> 0,
              done |-> 0, trace |-> <<>>]

\* The names a caller passes as `ease`
EaseNames == {"power2.inOut", "power3.inOut"}

\* easingByName(name)(t); any other name gives the identity
EasingByName(name, t) ==
    IF name = "power2.inOut" THEN power2InOut(t)
    ELSE IF name = "power3.inOut" THEN power3InOut(t)
    ELSE t

\* (mutant) the final write made relative to the offset of the moment
SnapFromCurrent(a, e) == XY(Add(GetTranslate(e).x, a.dx), Add(GetTranslate(e).y, a.dy))

\* The final write of a tween: sx + dx, sy + dy
SnapTarget(a, e) == XY(Add(a.sx, a.dx), Add(a.sy, a.dy))

\* animateTranslate(el, dx, dy, {duration, ease}) up to its return: the start offset is
\* read (and cached), the promise is pending
StartTranslate(given, dx, dy, dur, ease, at) ==
    Only({
    [status |-> "running", sx |-> GetTranslate(e).x, sy |-> GetTranslate(e).y,
     dx |-> dx, dy |-> dy, start |-> at, dur |-> dur,
     ease |-> ease, t |-> 0, k |-> 0, pt |-> 0, pk |-> 0,
     done |-> 0, trace |-> <<>>] : e \in {given} })

\* frame(now): t, k and the offset written, sx + dx * k
FrameProgress(a, at) == clamp01(at - a.start, a.dur)

FrameWrite(a, e, at) ==
    LET k == EasingByName(a.ease, FrameProgress(a, at))
    IN  SetTranslate(e, Add(a.sx, MulK(a.dx, k)), Add(a.sy, MulK(a.dy, k)))

\* frame(now) with t = 1: the snap to sx + dx after the eased write
FrameSnap(a, e, at) ==
    LET e1 == FrameWrite(a, e, at)
    IN  SetTranslate(e1, SnapTarget(a, e1).x, SnapTarget(a, e1).y)

\* One call made by frame(now), with the offset of the element once it has returned
Called(name, tr) == [call |-> name, tr |-> tr]

\* (mutant) onComplete is invoked at the end of every frame, not only of the last one
CompleteOnEveryFrame(a, e, at) ==
    IF at - a.start < a.dur
    THEN Only({ <<Called("setTranslate", t1), Called("onUpdate", t1),
                  Called("onComplete", t1), Called("requestAnimationFrame", t1)>>
                : t1 \in {GetTranslate(FrameWrite(a, e, at))} })
    ELSE Only({ <<Called("setTranslate", t1), Called("onUpdate", t1),
                  Called("setTranslate", t2), Called("onUpdate", t2),
                  Called("onComplete", t2), Called("resolve", t2)>>
                : t1 \in {GetTranslate(FrameWrite(a, e, at))},
                  t2 \in {GetTranslate(FrameSnap(a, e, at))} })

\* The calls frame(now) makes, in the order of the code: the eased write and onUpdate,
\* then either the next frame's request, or the snap, onUpdate, onComplete and resolve
FrameCalls(a, e, at) ==
    IF at - a.start < a.dur
    THEN Only({ <<Called("setTranslate", t1), Called("onUpdate", t1),
                  Called("requestAnimationFrame", t1)>>
                : t1 \in {GetTranslate(FrameWrite(a, e, at))} })
    ELSE Only({ <<Called("setTranslate", t1), Called("onUpdate", t1),
                  Called("setTranslate", t2), Called("onUpdate", t2),
                  Called("onComplete", t2), Called("resolve", t2)>>
                : t1 \in {GetTranslate(FrameWrite(a, e, at))},
                  t2 \in {GetTranslate(FrameSnap(a, e, at))} })

\* The positions of the calls of one name in a frame's calls
CallsOf(name, made) == {i \in 1..Len(made) : made[i].call = name}

\* The tween's record after a frame on the element e
FrameRecord(a, e, at) ==
    Only({
    [a EXCEPT !.t = FrameProgress(a, at), !.k = EasingByName(a.ease, FrameProgress(a, at)),
              !.pt = a.t, !.pk = a.k,
              !.trace = made,
              !.done = a.done + Cardinality(CallsOf("onComplete", made)),
              !.status = IF CallsOf("resolve", made) # {} THEN "resolved" ELSE "running"]
    : made \in {FrameCalls(a, e, at)} })

----------------------------------------------------------------------------
\* The logo controller: layout, drag switch, trail (logo.js, _layout.js, _drag.js,
\* _trail.js, _compact.js)

\* Window sizes of the model: a desktop window and a phone
Desktop   == [w |-> 1280, h |-> 800]
Mobile    == [w |-> 390, h |-> 844]
Viewports == {Desktop, Mobile}

\* Resize events delivered in one behaviour
MaxResizes == 1

\* isMobile(): matchMedia('(max-width: 1199.98px)'), fallback innerWidth < 1200
MobileBreakpoint == 1200
IsMobile(vp) == vp.w < MobileBreakpoint

LayoutMode(vp) == IF IsMobile(vp) THEN "mobile" ELSE "desktop"

\* Trail stroke widths (constructor)
MIN_TRAIL_SW == 24
MAX_TRAIL_SW == 48

\* this.dragOptIn is read by runPreloader and animateLayoutTransition and assigned
\* nowhere: its value is undefined
dragOptIn == "undefined"

\* this.animateBreakpointTransitions: set to false by the constructor, assigned nowhere else
animateBreakpointTransitions == FALSE

\* JavaScript truthiness of the values passed to setDragEnabled
Truthy(v) == v = "true"

\* The part of the state the controller's code reads and writes, as one value, so that
\* the pieces of a handler compose in the order the code runs them
Prog ==
    [raf |-> raf, timers |-> timers,
     currentGroupScale |-> currentGroupScale, logoCompact |-> logoCompact,
     nodeScale |-> nodeScale, bodyClasses |-> bodyClasses, viewBox |-> viewBox,
     currentLayoutMode |-> currentLayoutMode, resizeAttached |-> resizeAttached,
     dragRegistry |-> dragRegistry, dragEnabled |-> dragEnabled, centre |-> centre,
     trailD |-> trailD, trailSW |-> trailSW, ltw |-> ltw, pc |-> pc, stab |-> stab,
     tw |-> tw, twStart |-> twStart, twTarget |-> twTarget, midway |-> midway,
     visited |-> visited, el |-> el, base |-> base, cur |-> cur, tween |-> tween]

\* The handler has run: h is the state it leaves, computed once
Commit(h) ==
    \E s \in {h} :
        /\ raf' = s.raf
        /\ timers' = s.timers
        /\ currentGroupScale' = s.currentGroupScale
        /\ logoCompact' = s.logoCompact
        /\ nodeScale' = s.nodeScale
        /\ bodyClasses' = s.bodyClasses
        /\ viewBox' = s.viewBox
        /\ currentLayoutMode' = s.currentLayoutMode
        /\ resizeAttached' = s.resizeAttached
        /\ dragRegistry' = s.dragRegistry
        /\ dragEnabled' = s.dragEnabled
        /\ centre' = s.centre
        /\ trailD' = s.trailD
        /\ trailSW' = s.trailSW
        /\ ltw' = s.ltw
        /\ pc' = s.pc
        /\ stab' = s.stab
        /\ tw' = s.tw
        /\ twStart' = s.twStart
        /\ twTarget' = s.twTarget
        /\ midway' = s.midway
        /\ visited' = s.visited
        /\ el' = s.el
        /\ base' = s.base
        /\ cur' = s.cur
        /\ tween' = s.tween
        /\ UNCHANGED <<scaleAnim, scaleAnimCounter, anims, calls, reducedMotion,
                       pivot, meta, drag, hist, ops, restVars>>

RequestFrame(s, cb) == [s EXCEPT !.raf = Append(@, cb)]

AddClass(s, c) == [s EXCEPT !.bodyClasses = @ \cup {c}]

\* (mutant) setDragEnabled that leaves the listeners as they are
SetDragEnabledIgnored(s, on) == s

\* setDragEnabled(on): enable() or disable() of every registered group
SetDragEnabled(given, on) ==
    Only({
    [s EXCEPT !.dragEnabled =
        [g \in Groups |-> IF s.dragRegistry[g] THEN Truthy(on) ELSE s.dragEnabled[g]]] : s \in {given} })

\* setupDrag(node) for every group: registers the group and enables its listeners
SetupDrag(s) ==
    [s EXCEPT !.dragRegistry = [g \in Groups |-> TRUE],
              !.dragEnabled = [g \in Groups |-> TRUE]]

\* updateTrail(): both paths are rewritten from the groups' current positions
UpdateTrail(given) ==
    Only({
    [s EXCEPT !.trailD = [A |-> <<s.centre[1], s.centre[2]>>,
                          B |-> <<s.centre[2], s.centre[3]>>]] : s \in {given} })

\* applyTrailStrokeWidth()
ApplyTrailStrokeWidth(given) ==
    Only({
    [s EXCEPT !.trailSW = IF s.logoCompact THEN MIN_TRAIL_SW ELSE MAX_TRAIL_SW] : s \in {given} })

\* applyGroupScaleTransform(): immediate scale, a no-op at the current scale
ApplyGroupScaleTransform(given) ==
    Only({
    LET newScale == IF s.logoCompact THEN ScaleHalf ELSE ScaleOne
    IN  IF s.currentGroupScale = newScale
        THEN s
        ELSE [s EXCEPT !.nodeScale = [g \in Groups |-> newScale],
                       !.el = ApplyImmediateScaleToNode(@, newScale),
                       !.currentGroupScale = newScale] : s \in {given} })

\* setLogoCompact(on, {animate: false})
SetLogoCompactImmediate(s, on) ==
    UpdateTrail(ApplyGroupScaleTransform(ApplyTrailStrokeWidth([s EXCEPT !.logoCompact = on])))

\* A group's centre at the target `pose` computed for the current window
Place(pose) == [pose |-> pose, vp |-> viewport]

\* incTranslate(g.node, tx - c.x, ty - c.y): the centre c moves onto the target
MoveTo(s, g, pose) == [s EXCEPT !.centre[g] = Place(pose)]

\* clampGroupBox(node): a box placed for the current window lies inside its safe
\* rectangle and is left alone; one placed for another window is pulled inside
ClampGroupBox(given, g) ==
    Only({
    IF s.centre[g].vp = viewport THEN s ELSE [s EXCEPT !.centre[g] = Place("clamped")] : s \in {given} })

\* The first group, v1, is also followed in pixels: `el` is its node, whose box has the
\* size 2 * HalfSize at scale 1. The three groups have boxes of one size and sit in a row

\* getBoundingClientRect().width and .height
Width(given) ==
    Only({ BoundingRect(e).right - BoundingRect(e).left : e \in {given} })
Height(given) ==
    Only({ BoundingRect(e).bottom - BoundingRect(e).top : e \in {given} })

\* anchorTargetsPx().v1: on mobile v1 hugs the top left of the safe area, on desktop its
\* corner is 'bl'
AnchorTargetsPx(given) ==
    Only({
    LET r   == SvgRect
        pad == SafeAreaPadding
    IN  IF IsMobile(viewport)
        THEN XY(Add(Add(r.left, Width(e) \div 2), pad), Add(Add(r.top, Height(e) \div 2), pad))
        ELSE XY(Add(Add(r.left, pad), Width(e) \div 2),
                Add(Add(r.bottom, -pad), -(Height(e) \div 2))) : e \in {given} })

\* incTranslate(g.node, tx - c.x, ty - c.y); this.clampGroupBox(g.node)
PlaceNodeAtAnchor(given) ==
    Only({
    LET t == AnchorTargetsPx(e)
        c == CenterOfNode(e)
    IN  ClampGroupBoxNode(IncTranslate(e, Add(t.x, -c.x), Add(t.y, -c.y))) : e \in {given} })

\* groups.forEach: incTranslate to the anchor target, then clampGroupBox
PlaceAtAnchors(s) ==
    LET p1 == ClampGroupBox(MoveTo(s, 1, "anchor"), 1)
        p2 == ClampGroupBox(MoveTo(p1, 2, "anchor"), 2)
        p3 == ClampGroupBox(MoveTo(p2, 3, "anchor"), 3)
    IN  [p3 EXCEPT !.el = PlaceNodeAtAnchor(@)]

\* tweenTo(node, refEl, [tx, ty], opts): the delta is measured from the snapshot of
\* baseCenters plus the node's offset, and handed to animateTranslate
TweenTo(given, target, dur, ease) ==
    Only({
    LET t  == GetTranslate(s.el)
        dx == Add(target.x, -Add(s.base.x, t.x))
        dy == Add(target.y, -Add(s.base.y, t.y))
    IN  [s EXCEPT !.el = GetTranslateCaches(@),
                  !.tween = StartTranslate(s.el, dx, dy, dur, ease, now)] : s \in {given} })

\* repositionGroupsToAnchors()
RepositionGroupsToAnchors(s) == UpdateTrail(PlaceAtAnchors(s))

\* layout(): syncViewBoxToPixels, placeLogoAtHeight, applyTrailStrokeWidth, updateTrail
Layout(s) == UpdateTrail(ApplyTrailStrokeWidth([s EXCEPT !.viewBox = viewport]))

\* animateLayoutTransition: duration 0.8
LayoutTweenDur == 800

\* animateLayoutTransition(): drag off, one tween per group towards its anchor
AnimateLayoutTransition(given) ==
    Only({
    LET s1 == TweenTo(SetDragEnabled(s, "false"), AnchorTargetsPx(s.el), LayoutTweenDur,
                      "power2.inOut")
    IN  [s1 EXCEPT !.ltw = [status |-> [g \in Groups |-> "running"],
                            start |-> now, target |-> Place("anchor")],
                   !.raf = @ \o <<RafCb("ltween", 1), RafCb("ltween", 2), RafCb("ltween", 3)>>] : s \in {given} })

----------------------------------------------------------------------------
\* The preloader: runPreloader and what it awaits (_animation-flow.js)

\* Steps of the animated path: 1 wiggle, 2 pose 3, 3 pose 4, 4 anchors
Steps == 1..4
LastStep == 4

\* WIGGLE = { dur: 0.55, hold: 0.2 }, TO_POSE = { dur: 0.85, hold: 0.15 }, in ms
WIGGLE_dur   == 550
WIGGLE_hold  == 200
TO_POSE_dur  == 850
TO_POSE_hold == 150

\* waitForViewportStability: cfg = { framesStable: 25, epsilon: 1, minWait: 50, maxWait: 1000 }
framesStable == 25
epsilon      == 1
minWait      == 50
maxWait      == 1000

\* fadeInIfNeeded: sleep(200) when there is no fade sequence
FadeDelay == 200

\* revealMs = Math.max(0, TO_POSE.dur * 1000 - 500)
RevealLead == 500
\* (mutant) the lead added to the duration instead of subtracted
revealMsAfterEnd == TO_POSE_dur + RevealLead

revealMs == IF TO_POSE_dur - RevealLead > 0 THEN TO_POSE_dur - RevealLead ELSE 0

\* lastH before the first loop() call (undefined)
NoHeight == -1

Dur(step)  == IF step = 1 THEN WIGGLE_dur ELSE TO_POSE_dur
Hold(step) == IF step = 1 THEN WIGGLE_hold ELSE TO_POSE_hold

\* The target of each step's tweens and the state the step ends in
StepPose(step) ==
    CASE step = 1 -> "wiggle" [] step = 2 -> "pose3" [] step = 3 -> "pose4" [] OTHER -> "anchor"
StepState(step) ==
    CASE step = 1 -> "Wiggled" [] step = 2 -> "Pose3" [] step = 3 -> "Pose4" [] OTHER -> "Anchored"

Enter(s, state) == [s EXCEPT !.visited = Append(@, state)]

At(s, where, step) == [s EXCEPT !.pc = [at |-> where, step |-> step]]

\* sleep(ms): a timer that resumes runPreloader
Sleep(s, ms) == [s EXCEPT !.timers = @ \cup {[k |-> "sleep", due |-> now + ms]}]

\* (mutant) nextFrame() whose frame is never requested
NextFrameForgotten(s) == s

\* nextFrame()
NextFrame(s) == RequestFrame(s, RafCb("next", 0))

\* (mutant) the step after next
SkipStep(step) == step + 2

\* The animated path takes the steps one after the other
NextStep(step) == step + 1

\* POSE3.v1 and POSE4.v1, in hundredths of the svg's width and height
POSE3_v1 == XY(32, 56)
POSE4_v1 == XY(40, 32)

\* WIGGLE.dxV1 = -0.07, in hundredths
WIGGLE_dxV1 == -7

\* The widest the groups spread on mobile: Math.min(fullWidth, 320)
MaxSpread == 320

\* The pack step on v1: the row is centred vertically when it is off by more than half a
\* pixel, then v1 takes the left place of the packed row
PackNode(given) ==
    Only({
    LET r   == SvgRect
        dy  == Add(Add(r.top, viewport.h \div 2), -CenterOfNode(e).y)
        e1  == IF Abs(dy) > 0 THEN IncTranslate(e, 0, dy) ELSE e
        lft == Add(r.left, (viewport.w - 3 * Width(e)) \div 2)
        t1x == Add(lft, Width(e) \div 2)
    IN  IncTranslate(e1, Add(t1x, -CenterOfNode(e1).x), 0) : e \in {given} })

\* currentPercents().v1: the centre as a fraction of the svg's size, kept as the centre
\* and the size it is divided by
CurrentPercents(given) ==
    Only({
    [x |-> CenterOfNode(e).x, y |-> CenterOfNode(e).y, w |-> viewport.w, h |-> viewport.h] : e \in {given} })

\* percentToPx([px, py]) for a pair given in hundredths, in whole pixels
PercentToPx(pct) ==
    XY(Add(SvgRect.left, (pct.x * viewport.w) \div 100),
       Add(SvgRect.top, (pct.y * viewport.h) \div 100))

\* The wiggle's target for v1: on mobile flush left in the spread, else percentToPx of
\* step2.v1 = [cur.v1[0] + WIGGLE.dxV1, cur.v1[1]]
WiggleTarget(given) ==
    Only({
    IF IsMobile(viewport)
    THEN LET fullLeft  == Add(SvgRect.left, SafeAreaPadding)
             fullRight == Add(SvgRect.right, -SafeAreaPadding)
             fullWidth == IF fullRight - fullLeft > 0 THEN fullRight - fullLeft ELSE 0
             allowedW  == IF fullWidth < MaxSpread THEN fullWidth ELSE MaxSpread
             slack     == fullWidth - allowedW
             L         == Add(fullLeft, slack \div 2)
         IN  XY(Add(L, Width(s.el) \div 2), CenterOfNode(s.el).y)
    ELSE XY(Add(SvgRect.left,
                (s.cur.x * viewport.w) \div s.cur.w + (WIGGLE_dxV1 * viewport.w) \div 100),
            Add(SvgRect.top, (s.cur.y * viewport.h) \div s.cur.h)) : s \in {given} })

\* The target of v1's tween in each step
StepTargetPx(given, step) ==
    Only({
    CASE step = 1 -> WiggleTarget(s)
      [] step = 2 -> PercentToPx(POSE3_v1)
      [] step = 3 -> PercentToPx(POSE4_v1)
      [] OTHER    -> AnchorTargetsPx(s.el) : s \in {given} })

\* WIGGLE.ease and TO_POSE.ease
StepEase(step) == IF step = 1 THEN "power2.inOut" ELSE "power3.inOut"

\* Promise.all of one step's three tweenTo calls. The tweens measure and start in the
\* same task; before the last step the reveal timer is set
StartTweens(given, step) ==
    Only({
    LET s0 == IF step = LastStep
              THEN [s EXCEPT !.timers = @ \cup {[k |-> "reveal", due |-> now + revealMs]}]
              ELSE s
        s1 == TweenTo(s0, StepTargetPx(s0, step), Dur(step), StepEase(step))
    IN  At([s1 EXCEPT !.tw[step] = [g \in Groups |-> "running"],
                      !.twStart = now,
                      !.twTarget = [g \in Groups |-> Place(StepPose(step))],
                      !.raf = @ \o <<RafCb("tween", 1), RafCb("tween", 2), RafCb("tween", 3)>>],
           "tween", step) : s \in {given} })

\* The reduced-motion branch: immediate placement at the anchors, then return
ReducedMotionPlacement(s) ==
    LET s1 == UpdateTrail(PlaceAtAnchors(s))
        s2 == AddClass(s1, "loader-done")
        s3 == SetDragEnabled(s2, dragOptIn)
    IN  At(Enter(s3, "Anchored"), "done", 0)

\* runPreloader after `await this.fadeInIfNeeded()`
AfterFade(given) ==
    Only({
    IF reducedMotion THEN ReducedMotionPlacement(s) ELSE StartTweens(s, 1) : s \in {given} })

\* fadeInIfNeeded() up to its first await
FadeInIfNeeded(given) ==
    Only({
    IF "logo-fade-in-start" \notin s.bodyClasses
    THEN At(Sleep(s, FadeDelay), "fadeSleep", 0)
    ELSE At(NextFrame(s), "fadeFrame", 0) : s \in {given} })

\* runPreloader after `await this.waitForViewportStability()`: compact scale up front,
\* the pack step, then fadeInIfNeeded
AfterStability(given) ==
    Only({
    LET s1 == IF s.logoCompact /\ s.currentGroupScale # ScaleHalf
              THEN UpdateTrail(ApplyGroupScaleTransform(s))
              ELSE s
        s2 == UpdateTrail([MoveTo(MoveTo(MoveTo(s1, 1, "packed"), 2, "packed"), 3, "packed")
                              EXCEPT !.el = PackNode(@)])
        s3 == [s2 EXCEPT !.cur = CurrentPercents(s2.el)]
    IN  FadeInIfNeeded(Enter(s3, "Packed")) : s \in {given} })

\* runPreloader() up to its first await: drag off, waitForViewportStability() started
RunPreloaderStart(s) ==
    LET s1 == SetDragEnabled(s, "false")
        s2 == [s1 EXCEPT !.stab = [lastH |-> NoHeight, stable |-> 0, start |-> now]]
    IN  At(RequestFrame(s2, RafCb("stab", 0)), "stability", 0)

\* (mutant) a step that is over as soon as one of its tweens has resolved
AnyResolved(status) == \E g \in Groups : status[g] = "resolved"

\* Promise.all: the step is over when all three tweens have resolved
AllResolved(status) == \A g \in Groups : status[g] = "resolved"

\* window.dispatchEvent(new CustomEvent('logo:midway'))
EmitMidway(s) == [s EXCEPT !.midway = @ + 1]

\* runPreloader after `await Promise.all([...])` of a step
AfterStep(given, step) ==
    Only({
    IF step = LastStep
    THEN LET s1 == [s EXCEPT !.timers = {tm \in @ : tm.k # "reveal"}]
             s2 == UpdateTrail(AddClass(s1, "loader-done"))
             s3 == SetDragEnabled(s2, dragOptIn)
         IN  At(Enter(s3, StepState(step)), "done", 0)
    ELSE LET s1 == IF step = 2 THEN EmitMidway(s) ELSE s
         IN  At(NextFrame(Enter(s1, StepState(step))), "settle1", step) : s \in {given} })

----------------------------------------------------------------------------
\* The callbacks of the logo controller, one action each

\* The frame callback `cb` runs next
Runs(cb) == frameQ # <<>> /\ Head(frameQ) = cb

\* The callback has run
Ran == frameQ' = Tail(frameQ) /\ UNCHANGED <<now, viewport, resizes>>

\* init(): the first requestAnimationFrame callback
BootFirst ==
    /\ Runs(RafCb("boot1", 0))
    /\ LET s1 == SetupDrag(ApplyTrailStrokeWidth(Prog))
           s2 == ApplyGroupScaleTransform([Layout(s1) EXCEPT !.base = CenterOfNode(s1.el)])
           s3 == RequestFrame(s2, RafCb("boot2", 0))
       IN  Commit([s3 EXCEPT !.resizeAttached = TRUE])
    /\ Ran

\* init(): the nested requestAnimationFrame callback, which calls runPreloader()
BootSecond ==
    /\ Runs(RafCb("boot2", 0))
    /\ LET s1 == AddClass(Prog, "booted")
           s2 == IF "logo-faded" \notin s1.bodyClasses
                 THEN AddClass(s1, "logo-fade-in-start")
                 ELSE s1
       IN  Commit(RunPreloaderStart(s2))
    /\ Ran

\* waitForViewportStability: loop()
StabilityLoop ==
    /\ Runs(RafCb("stab", 0))
    /\ LET h       == viewport.h
           stable  == IF stab.lastH # NoHeight /\ Abs(h - stab.lastH) <= epsilon
                      THEN stab.stable + 1
                      ELSE 0
           elapsed == now - stab.start
           s1      == [Prog EXCEPT !.stab = [lastH |-> h, stable |-> stable,
                                             start |-> stab.start]]
       IN  IF (stable >= framesStable /\ elapsed >= minWait) \/ elapsed >= maxWait
           THEN Commit(AfterStability(s1))
           ELSE Commit(RequestFrame(s1, RafCb("stab", 0)))
    /\ Ran

\* The callback of nextFrame(): fadeInIfNeeded or settleAfterStep resumes
NextFrameCb ==
    /\ Runs(RafCb("next", 0))
    /\ Commit(CASE pc.at = "fadeFrame" -> AfterFade(AddClass(Prog, "logo-fade-in-active"))
                [] pc.at = "settle1"   -> At(NextFrame(Prog), "settle2", pc.step)
                [] pc.at = "settle2"   -> At(Sleep(Prog, Hold(pc.step)), "hold", pc.step)
                [] OTHER               -> Prog)
    /\ Ran

\* frame(now) of group g's tween: what it writes on the node. v1's offset is the eased
\* one, and the snap to sx + dx when the time is up
Written(g) ==
    IF g = 1
    THEN [Prog EXCEPT !.el = IF now - tween.start < tween.dur
                             THEN FrameWrite(tween, el, now)
                             ELSE FrameSnap(tween, el, now),
                      !.tween = FrameRecord(tween, el, now)]
    ELSE Prog

\* animateTranslate: frame(now) of one group's tween, of the preloader ("tween") or of
\* animateLayoutTransition ("ltween")
TweenFrame ==
    \E g \in Groups, kind \in {"tween", "ltween"} :
        /\ Runs(RafCb(kind, g))
        /\ IF kind = "tween"
           THEN IF now - twStart < Dur(pc.step)
                THEN Commit(RequestFrame(
                        UpdateTrail([Written(g) EXCEPT !.centre[g] =
                                        [pose |-> "enroute", vp |-> twTarget[g].vp]]),
                        RafCb(kind, g)))
                ELSE LET s1 == UpdateTrail([Written(g) EXCEPT !.centre[g] = twTarget[g],
                                                        !.tw[pc.step][g] = "resolved"])
                     IN  IF AllResolved(s1.tw[pc.step])
                         THEN Commit(AfterStep(s1, pc.step))
                         ELSE Commit(s1)
           ELSE IF now - ltw.start < LayoutTweenDur
                THEN Commit(RequestFrame(
                        UpdateTrail([Written(g) EXCEPT !.centre[g] =
                                        [pose |-> "enroute", vp |-> ltw.target.vp]]),
                        RafCb(kind, g)))
                ELSE LET s1 == UpdateTrail([Written(g) EXCEPT !.centre[g] = ltw.target,
                                                        !.ltw.status[g] = "resolved"])
                     IN  IF AllResolved(s1.ltw.status)
                         THEN Commit(SetDragEnabled(s1, dragOptIn))
                         ELSE Commit(s1)
        /\ Ran

\* The window is resized: handleResize cancels the pending callback and requests a new one
ResizeEvent ==
    /\ frameQ = <<>>
    /\ resizes < MaxResizes
    /\ \E vp \in Viewports \ {viewport} : viewport' = vp
    /\ resizes' = resizes + 1
    /\ raf' = IF resizeAttached
              THEN Append(RemoveCb(raf, RafCb("resize", 0)), RafCb("resize", 0))
              ELSE raf
    /\ UNCHANGED <<now, frameQ, timers, scaleVars, reducedMotion, bodyClasses, viewBox,
                   currentLayoutMode, resizeAttached, dragRegistry, dragEnabled, centre,
                   trailD, trailSW, ltw, base, preVars, engVars, restVars>>

\* proceed() of the resize callback
Proceed(given, newLayoutMode) ==
    Only({
    [(IF animateBreakpointTransitions
      THEN AnimateLayoutTransition(s)
      ELSE RepositionGroupsToAnchors(s)) EXCEPT !.currentLayoutMode = newLayoutMode] : s \in {given} })

\* The requestAnimationFrame callback of handleResize
ResizeFrame ==
    /\ Runs(RafCb("resize", 0))
    /\ LET s1            == [Prog EXCEPT !.viewBox = viewport]
           newLayoutMode == LayoutMode(viewport)
           wantCompact   == newLayoutMode = "mobile"
       IN  IF currentLayoutMode # newLayoutMode
           THEN IF wantCompact # logoCompact
                THEN Commit(Proceed(SetLogoCompactImmediate(s1, wantCompact), newLayoutMode))
                ELSE Commit(Proceed(s1, newLayoutMode))
           ELSE Commit(RepositionGroupsToAnchors(s1))
    /\ Ran

\* A timer runs when its time has come, the earliest first, between two frames
TimerReady(tm) ==
    /\ frameQ = <<>>
    /\ tm \in timers
    /\ tm.due <= now
    /\ \A o \in timers : tm.due <= o.due

TimerRan == UNCHANGED <<now, frameQ, viewport, resizes>>

\* No frame is requested and no timer is due: nothing runs until the next timer's time
AwaitTimer ==
    /\ frameQ = <<>>
    /\ raf = <<>>
    /\ timers # {}
    /\ NoTimerDue
    /\ \E tm \in timers :
        /\ \A o \in timers : tm.due <= o.due
        /\ now' = tm.due
    /\ UNCHANGED <<raf, frameQ, timers, scaleVars, logoVars, preVars, engVars, restVars>>

\* The timer of sleep(ms): fadeInIfNeeded returns, or the hold after a step is over
TimerSleep ==
    \E tm \in timers :
        /\ tm.k = "sleep"
        /\ TimerReady(tm)
        /\ LET s1 == [Prog EXCEPT !.timers = @ \ {tm}]
           IN  IF pc.at = "fadeSleep"
               THEN Commit(AfterFade(s1))
               ELSE Commit(StartTweens(s1, NextStep(pc.step)))
        /\ TimerRan

\* revealTimer: the page is revealed before the last tweens end
TimerReveal ==
    \E tm \in timers :
        /\ tm.k = "reveal"
        /\ TimerReady(tm)
        /\ Commit(AddClass([Prog EXCEPT !.timers = @ \ {tm}], "loader-done"))
        /\ TimerRan

----------------------------------------------------------------------------
\* The translate engine driven by its callers: one action per operation on the element

\* Operations applied in one behaviour
MaxOps == 2

\* Offsets and deltas the callers pass, pointer positions, tween durations (ms)
Deltas    == {XY(1, 0), XY(-16, -16)}
Pointers  == {XY(40, 40), XY(48, 41)}
TweenDurations == {10, 30}

\* Scale factors of a scale animation's frames
FrameScales == {ScaleHalf, 750, ScaleOne}

NoMeta    == [active |-> FALSE, tx |-> 0, ty |-> 0, old |-> XY(0, 0)]
NoDrag    == [dragging |-> FALSE, startX |-> 0, startY |-> 0, base |-> XY(0, 0)]
NoElement == [store |-> NoPart, tr |-> NoPart, sc |-> 0, half |-> HalfSize]
NoHist    == [op |-> "none", x |-> 0, y |-> 0, before |-> NoElement,
              pop |-> "none", px |-> 0, py |-> 0, pbefore |-> NoElement]

\* The operation `op` with arguments x, y is applied to the element
Record(op, x, y) ==
    /\ hist' = [op |-> op, x |-> x, y |-> y, before |-> el,
                pop |-> hist.op, px |-> hist.x, py |-> hist.y, pbefore |-> hist.before]
    /\ ops' = ops + 1

\* An operation is called between two frames
MayCall == frameQ = <<>> /\ ops < MaxOps

EngFrame == UNCHANGED <<scaleVars, logoVars, preVars, pivot, restVars>>

SetTranslateOp ==
    \E d \in Deltas :
        /\ MayCall
        /\ el' = SetTranslate(el, d.x, d.y)
        /\ Record("set", d.x, d.y)
        /\ UNCHANGED <<envVars, tween, meta, drag>> /\ EngFrame

IncTranslateOp ==
    \E d \in Deltas :
        /\ MayCall
        /\ el' = IncTranslate(el, d.x, d.y)
        /\ Record("inc", d.x, d.y)
        /\ UNCHANGED <<envVars, tween, meta, drag>> /\ EngFrame

GetTranslateOp ==
    /\ MayCall
    /\ el' = GetTranslateCaches(el)
    /\ Record("get", GetTranslate(el).x, GetTranslate(el).y)
    /\ UNCHANGED <<envVars, tween, meta, drag>> /\ EngFrame

ClampOp ==
    /\ MayCall
    /\ el' = ClampGroupBoxNode(el)
    /\ Record("clamp", 0, 0)
    /\ UNCHANGED <<envVars, tween, meta, drag>> /\ EngFrame

\* The scale writers loop over the groups: every node gets the same factor
ScaleFrame ==
    UNCHANGED <<currentGroupScale, logoCompact, scaleAnim, scaleAnimCounter, anims, calls,
                logoVars, preVars, pivot, restVars>>

\* applyGroupScaleTransform: the loop over the groups, followed on this node
ApplyScaleOp ==
    \E newScale \in ScaleTargets :
        /\ MayCall
        /\ el' = ApplyImmediateScaleToNode(el, newScale)
        /\ nodeScale' = [g \in Groups |-> newScale]
        /\ Record("scale", newScale, 0)
        /\ UNCHANGED <<envVars, tween, meta, drag>> /\ ScaleFrame

\* animateGroupScaleTransform: groupsMeta is taken for this node
ScaleAnimStartOp ==
    /\ MayCall
    /\ meta' = [active |-> TRUE, tx |-> ParseTranslate(el).x, ty |-> ParseTranslate(el).y,
                old |-> CenterOfNode(el)]
    /\ Record("scaleStart", 0, 0)
    /\ UNCHANGED <<envVars, el, tween, drag>> /\ EngFrame

\* A frame of the scale animation, for this node
ScaleAnimFrameOp ==
    \E sc \in FrameScales :
        /\ MayCall
        /\ meta.active
        /\ el' = ApplyAnimatedScaleFrameNode(el, meta, sc)
        /\ nodeScale' = ApplyAnimatedScaleFrame(sc)
        /\ Record("scaleFrame", sc, 0)
        /\ UNCHANGED <<envVars, tween, meta, drag>> /\ ScaleFrame

\* animateTranslate(el, dx, dy, {duration}) up to the promise it returns
AnimateTranslateCall ==
    \E d \in Deltas, dur \in TweenDurations, ease \in EaseNames :
        /\ MayCall
        /\ tween.status # "running"
        /\ el' = GetTranslateCaches(el)
        /\ tween' = StartTranslate(el, d.x, d.y, dur, ease, now)
        /\ raf' = Append(raf, RafCb("translate", 0))
        /\ Record("animate", d.x, d.y)
        /\ UNCHANGED <<now, frameQ, timers, meta, drag>> /\ EngFrame

\* animateTranslate: frame(now)
TranslateFrame ==
    /\ Runs(RafCb("translate", 0))
    /\ tween' = FrameRecord(tween, el, now)
    /\ IF tween'.status = "running"
       THEN /\ el' = FrameWrite(tween, el, now)
            /\ raf' = Append(raf, RafCb("translate", 0))
       ELSE /\ el' = FrameSnap(tween, el, now)
            /\ UNCHANGED raf
    /\ hist' = [hist EXCEPT !.op = "frame", !.before = el, !.pop = hist.op,
                            !.pbefore = hist.before]
    /\ frameQ' = Tail(frameQ)
    /\ UNCHANGED <<now, timers, meta, drag, ops>> /\ EngFrame

\* setupDrag: onDown
PointerDown ==
    \E c \in Pointers :
        /\ MayCall
        /\ drag' = [dragging |-> TRUE, startX |-> c.x, startY |-> c.y, base |-> GetTranslate(el)]
        /\ el' = ClampGroupBoxNode(GetTranslateCaches(el))
        /\ Record("down", c.x, c.y)
        /\ UNCHANGED <<envVars, tween, meta>> /\ EngFrame

\* setupDrag: onMove
PointerMove ==
    \E c \in Pointers :
        /\ MayCall
        /\ drag.dragging
        /\ el' = ClampGroupBoxNode(SetTranslate(el, Add(drag.base.x, Add(c.x, -drag.startX)),
                                                    Add(drag.base.y, Add(c.y, -drag.startY))))
        /\ Record("move", c.x, c.y)
        /\ UNCHANGED <<envVars, tween, meta, drag>> /\ EngFrame

\* setupDrag: onUp
PointerUp ==
    /\ MayCall
    /\ drag' = [drag EXCEPT !.dragging = FALSE]
    /\ el' = ClampGroupBoxNode(el)
    /\ Record("up", 0, 0)
    /\ UNCHANGED <<envVars, tween, meta>> /\ EngFrame

----------------------------------------------------------------------------
\* Dragging the three groups (_drag.js): every group has its own setupDrag closure; its
\* pointerdown/touchstart listener is on the group's node, its move and up listeners are
\* on the window

\* Pointer events and setDragEnabled calls in one behaviour
MaxEvents == 5

\* A group whose box touches the right edge of the safe rectangle of the desktop window
AtEdge == [store |-> NoPart, tr |-> Part(1208, 0), sc |-> 0, half |-> HalfSize]

NoHold  == [down |-> FALSE, at |-> XY(0, 0), offset |-> XY(0, 0)]
NoDHist == [ev |-> "none", g |-> 0, c |-> XY(0, 0), on |-> "none",
            before |-> [g \in Groups |-> NoElement]]

\* (mutant) listeners that disable() does not remove
ListeningAlways(enabled, g) == TRUE

\* enable() / disable(): whether the group's six listeners are attached
Listening(enabled, g) == enabled[g]

\* onDown: the closure's locals afterwards
OnDownLocals(e, c) ==
    [dragging |-> TRUE, startX |-> c.x, startY |-> c.y, base |-> GetTranslate(e)]

\* onDown: the node afterwards (base = getTranslate(groupNode), clampGroupBox)
OnDownNode(e) == ClampGroupBoxNode(GetTranslateCaches(e))

\* onMove: the node afterwards
OnMoveNode(e, d, c) ==
    IF ~d.dragging THEN e
    ELSE ClampGroupBoxNode(SetTranslate(e, Add(d.base.x, Add(c.x, -d.startX)),
                                           Add(d.base.y, Add(c.y, -d.startY))))

\* onUp: the closure's locals and the node afterwards
OnUpLocals(d) == [d EXCEPT !.dragging = FALSE]
OnUpNode(e) == ClampGroupBoxNode(e)

\* updateTrail(), from the nodes' boxes
TrailOfNodes(ns) ==
    [A |-> <<CenterOfNode(ns[1]), CenterOfNode(ns[2])>>,
     B |-> <<CenterOfNode(ns[2]), CenterOfNode(ns[3])>>]

MayEvent == ops < MaxEvents

DragRecord(ev, g, c) ==
    /\ dhist' = [dhist EXCEPT !.ev = ev, !.g = g, !.c = c, !.before = nodes]
    /\ ops' = ops + 1

DragFrame ==
    UNCHANGED <<envVars, scaleVars, preVars, el, pivot, tween, meta, drag, hist,
                viewport, reducedMotion, bodyClasses, resizes, viewBox, currentLayoutMode,
                resizeAttached, dragRegistry, centre, trailSW, ltw, base, radVars, dom, dialog>>

\* The pointer, which is up, goes down on group g: pointerdown / touchstart is dispatched
\* to its node
Press ==
    \E g \in Groups, c \in Pointers :
        /\ MayEvent
        /\ \A o \in Groups : ~held[o].down
        /\ held' = [held EXCEPT ![g] = [down |-> TRUE, at |-> c,
                                        offset |-> GetTranslate(nodes[g])]]
        /\ IF Listening(dragEnabled, g)
           THEN /\ drags' = [drags EXCEPT ![g] = OnDownLocals(nodes[g], c)]
                /\ nodes' = [nodes EXCEPT ![g] = OnDownNode(@)]
                /\ trailD' = TrailOfNodes(nodes')
           ELSE UNCHANGED <<drags, nodes, trailD>>
        /\ DragRecord("press", g, c)
        /\ UNCHANGED dragEnabled /\ DragFrame

\* The pointer moves: pointermove / touchmove is dispatched to the window, every
\* attached onMove runs
Move ==
    \E c \in Pointers :
        /\ MayEvent
        /\ nodes' = [g \in Groups |-> IF Listening(dragEnabled, g)
                                      THEN OnMoveNode(nodes[g], drags[g], c)
                                      ELSE nodes[g]]
        /\ trailD' = IF \E g \in Groups : Listening(dragEnabled, g) /\ drags[g].dragging
                     THEN TrailOfNodes(nodes') ELSE trailD
        /\ DragRecord("move", 0, c)
        /\ UNCHANGED <<drags, held, dragEnabled>> /\ DragFrame

\* The pointer goes up: pointerup / touchend is dispatched to the window, every attached
\* onUp runs
Release ==
    /\ MayEvent
    /\ held' = [g \in Groups |-> [held[g] EXCEPT !.down = FALSE]]
    /\ drags' = [g \in Groups |-> IF Listening(dragEnabled, g)
                                  THEN OnUpLocals(drags[g]) ELSE drags[g]]
    /\ nodes' = [g \in Groups |-> IF Listening(dragEnabled, g)
                                  THEN OnUpNode(nodes[g]) ELSE nodes[g]]
    /\ trailD' = IF \E g \in Groups : Listening(dragEnabled, g)
                 THEN TrailOfNodes(nodes') ELSE trailD
    /\ DragRecord("release", 0, XY(0, 0))
    /\ UNCHANGED dragEnabled /\ DragFrame

\* setDragEnabled(on)
SetDragEnabledCall ==
    \E on \in {"true", "false"} :
        /\ MayEvent
        /\ dragEnabled' = SetDragEnabled(Prog, on).dragEnabled
        /\ dhist' = [dhist EXCEPT !.ev = "setDragEnabled", !.g = 0, !.c = XY(0, 0),
                                  !.on = on, !.before = nodes]
        /\ ops' = ops + 1
        /\ UNCHANGED <<nodes, drags, held, trailD>> /\ DragFrame

----------------------------------------------------------------------------
\* The anchors of the three groups in pixels (_trail.js, _layout.js)

\* (mutant) a corner target that leaves no padding to the window's edge
TargetForFlush(e, corner) ==
    LET r  == SvgRect
        hw == Width(e) \div 2
        hh == Height(e) \div 2
    IN  IF corner = "bl" THEN XY(Add(r.left, hw), Add(r.bottom, -hh))
        ELSE IF corner = "tr" THEN XY(Add(r.right, -hw), Add(r.top, hh))
        ELSE XY(Add(r.right, -hw), Add(r.bottom, -hh))

\* targetFor(group, corner) of the desktop layout
TargetFor(e, corner) ==
    LET r   == SvgRect
        hw  == Width(e) \div 2
        hh  == Height(e) \div 2
        pad == SafeAreaPadding
    IN  IF corner = "bl" THEN XY(Add(Add(r.left, pad), hw), Add(Add(r.bottom, -pad), -hh))
        ELSE IF corner = "tr" THEN XY(Add(Add(r.right, -pad), -hw), Add(Add(r.top, pad), hh))
        ELSE XY(Add(Add(r.right, -pad), -hw), Add(Add(r.bottom, -pad), -hh))

\* anchorTargetsPx(): v1, v2, v3. On mobile the groups sit in a row at the top, v1 and
\* v3 hugging the safe area and v2 midway between v1's right and v3's left edge
AnchorTargetsOfNodes(given) ==
    Only({
    LET r       == SvgRect
        pad     == SafeAreaPadding
        v1cx    == Add(Add(r.left, Width(ns[1]) \div 2), pad)
        v3cx    == Add(Add(r.right, -(Width(ns[3]) \div 2)), -pad)
        v1Right == Add(v1cx, Width(ns[1]) \div 2)
        v3Left  == Add(v3cx, -(Width(ns[3]) \div 2))
        v2cx    == Add(v1Right, v3Left) \div 2
    IN  IF IsMobile(viewport)
        THEN <<XY(v1cx, Add(Add(r.top, Height(ns[1]) \div 2), pad)),
               XY(v2cx, Add(Add(r.top, Height(ns[2]) \div 2), pad)),
               XY(v3cx, Add(Add(r.top, Height(ns[3]) \div 2), pad))>>
        ELSE <<TargetFor(ns[1], "bl"), TargetFor(ns[2], "br"), TargetFor(ns[3], "tr")>>
    : ns \in {given} })

\* repositionGroupsToAnchors(): the targets are measured once, then every group is moved
\* by incTranslate onto its target and clamped
RepositionNodes(given) ==
    Only({
    LET t == AnchorTargetsOfNodes(ns)
    IN  [g \in Groups |->
            ClampGroupBoxNode(IncTranslate(ns[g], Add(t[g].x, -CenterOfNode(ns[g]).x),
                                                  Add(t[g].y, -CenterOfNode(ns[g]).y)))]
    : ns \in {given} })

\* repositionGroupsToAnchors() is called; updateTrail() follows
RepositionCall ==
    /\ MayEvent
    /\ nodes' = RepositionNodes(nodes)
    /\ trailD' = TrailOfNodes(nodes')
    /\ DragRecord("reposition", 0, XY(0, 0))
    /\ UNCHANGED <<drags, held, dragEnabled>> /\ DragFrame

----------------------------------------------------------------------------
\* The radial ring (class RadialBox, _countdown.js). Sizes written by updateRadialScale
\* are held in 1/SizeUnit px, which makes the interpolation exact; --fit-scale is held in
\* 1/FitUnit.

DESKTOP_W == 992
MIN_W     == 480
TABLET_W  == 768
PLATEAU_W == 375
SMALL_W   == 320
H_MIN     == 600
H_MAX     == 960
BOX_W     == 615
BOX_H     == 495

SizeUnit == DESKTOP_W - MIN_W
FitUnit  == 9900

\* this.originalSizes, this.originalMinSizes (initRadialBox)
originalSizes    == [center |-> 288, buttons |-> <<96, 144, 216, 144, 216, 96>>]
originalMinSizes == [center |-> 146, buttons |-> <<42, 64, 106, 64, 106, 42>>]

Satellites == 1..6

Max2(a, b) == IF a >= b THEN a ELSE b
Min2(a, b) == IF a <= b THEN a ELSE b
SetMax(S) == CHOOSE x \in S : \A y \in S : y <= x

\* Math.round(n / d) for d > 0: halves go up
RoundDiv(n, d) == (2 * n + d) \div (2 * d)

\* r = Math.max(0, Math.min(1, (w - MIN_W) / (DESKTOP_W - MIN_W))), in 1/SizeUnit
RatioOf(w) == Max2(0, Min2(SizeUnit, w - MIN_W))

\* matchMedia('(orientation: portrait)').matches
IsPortrait(vp) == vp.h >= vp.w

\* fitScale, in 1/FitUnit
FitScaleOf(vp) ==
    IF vp.w >= TABLET_W
    THEN IF vp.h >= H_MAX THEN FitUnit
         ELSE IF vp.h <= H_MIN THEN (6 * FitUnit) \div 10
         ELSE (6 * FitUnit) \div 10 + (4 * FitUnit * (vp.h - H_MIN)) \div (10 * (H_MAX - H_MIN))
    ELSE IF vp.w >= PLATEAU_W
    THEN IF IsPortrait(vp) THEN (12 * FitUnit) \div 10 ELSE (8 * FitUnit) \div 10
    ELSE IF vp.w <= SMALL_W THEN (9 * FitUnit) \div 10
    ELSE FitUnit + (2 * FitUnit * (vp.w - SMALL_W)) \div (10 * (PLATEAU_W - SMALL_W))

\* (mutant) the interpolation reaching the maximum sizes twice as far out
LerpSlow(a, b, r) == a * SizeUnit + ((b - a) * r) \div 2

\* lerp(a, b, t) = a + (b - a) * t, in 1/SizeUnit px
Lerp(a, b, r) == a * SizeUnit + (b - a) * r

\* computeDiameter(cSize, bSizes), px
ComputeDiameter(cSize, bSizes) ==
    LET maxOuter2 == SetMax({cSize} \cup {cSize + 2 * bSizes[i] - SizeUnit : i \in Satellites})
    IN  (maxOuter2 + 8 * SizeUnit + SizeUnit - 1) \div SizeUnit

\* centerBase and btnBases for the width w
BaseSizes(w) ==
    IF w >= DESKTOP_W
    THEN [center |-> originalSizes.center * SizeUnit,
          buttons |-> [i \in Satellites |-> originalSizes.buttons[i] * SizeUnit]]
    ELSE IF w <= MIN_W
    THEN [center |-> originalMinSizes.center * SizeUnit,
          buttons |-> [i \in Satellites |-> originalMinSizes.buttons[i] * SizeUnit]]
    ELSE [center |-> Lerp(originalMinSizes.center, originalSizes.center, RatioOf(w)),
          buttons |-> [i \in Satellites |-> Lerp(originalMinSizes.buttons[i],
                                                  originalSizes.buttons[i], RatioOf(w))]]

\* boxW and boxH for the width w
BoxFor(w) ==
    LET desktopDiameter == ComputeDiameter(originalSizes.center * SizeUnit,
                               [i \in Satellites |-> originalSizes.buttons[i] * SizeUnit])
        currentDiameter == ComputeDiameter(BaseSizes(w).center, BaseSizes(w).buttons)
    IN  IF w >= DESKTOP_W
        THEN [w |-> BOX_W, h |-> BOX_H]
        ELSE [w |-> RoundDiv(BOX_W * currentDiameter, Max2(1, desktopDiameter)),
              h |-> RoundDiv(BOX_H * currentDiameter, Max2(1, desktopDiameter))]

\* Math.abs(r - this.lastScaleRatio) < 0.001
SameRatio(r, last) == Abs(r - last) * 1000 < SizeUnit

\* Math.abs((this.lastFitScale ?? -1) - fitScale) < 0.0001
SameFit(last, fitScale) == Abs(last - fitScale) * 10000 < FitUnit

JsBool(b) == IF b THEN "true" ELSE "false"

\* (mutant) updateRadialScale that recomputes and rewrites on every call
NeverSkips(s, vp) == FALSE

\* Skip redundant only if interpolation, desktop state and fitScale are unchanged
SkipsRedundant(s, vp) ==
    /\ SameRatio(RatioOf(vp.w), s.lastScaleRatio)
    /\ s.lastIsDesktop = JsBool(vp.w >= DESKTOP_W)
    /\ SameFit(s.lastFitScale, FitScaleOf(vp))

\* updateRadialScale() in the window vp; `writes` counts the setProperty calls
UpdateRadialScale(s, vp) ==
    IF ~s.el THEN s
    ELSE IF SkipsRedundant(s, vp) THEN s
    ELSE [s EXCEPT !.lastScaleRatio = RatioOf(vp.w),
                   !.lastIsDesktop = JsBool(vp.w >= DESKTOP_W),
                   !.lastFitScale = FitScaleOf(vp),
                   !.props.centerBase = BaseSizes(vp.w).center,
                   !.props.btnBase = BaseSizes(vp.w).buttons,
                   !.props.fitScale = FitScaleOf(vp),
                   !.props.boxW = BoxFor(vp.w).w,
                   !.props.boxH = BoxFor(vp.w).h,
                   !.writes = @ + 10]

\* updateGeometry() works on the computed widths: lengths are held in quarter pixels, an
\* angle as the point [c, s, d] of the unit circle it stands for (cos = c/d, sin = s/d).
\* The widths followed are such that the law-of-cosines angles have rational cosines and
\* sines, so acos, cos and sin are computed exactly; every R_i is positive, so
\* Math.max(eps, .) changes nothing.

Quarter == 4

RECURSIVE GCD(_, _)
GCD(a, b) == IF b = 0 THEN a ELSE GCD(b, a % b)

Reduced(c, s, d) ==
    LET g == GCD(GCD(Abs(c), Abs(s)), d)
    IN  [c |-> c \div g, s |-> s \div g, d |-> d \div g]

Sqrt(n, bound) == CHOOSE r \in 0..bound : r * r = n

\* Math.acos(Math.min(1, Math.max(-1, num / den))), den > 0
ArcCos(num, den) ==
    IF num >= den THEN [c |-> 1, s |-> 0, d |-> 1]
    ELSE IF num <= -den THEN [c |-> -1, s |-> 0, d |-> 1]
    ELSE LET g  == GCD(Abs(num), den)
             cn == num \div g
             cd == den \div g
         IN  [c |-> cn, s |-> Sqrt(cd * cd - cn * cn, cd), d |-> cd]

\* a + b
AngleSum(a, b) == Reduced(a.c * b.c - a.s * b.s, a.s * b.c + a.c * b.s, a.d * b.d)

\* (a0Deg * Math.PI) / 180, for whole quarter turns
FromDegrees(deg) ==
    CASE deg = 0   -> [c |-> 1, s |-> 0, d |-> 1]
      [] deg = 90  -> [c |-> 0, s |-> 1, d |-> 1]
      [] deg = 180 -> [c |-> -1, s |-> 0, d |-> 1]
      [] deg = 270 -> [c |-> 0, s |-> -1, d |-> 1]

\* cr = centerSize / 2, b = btnSizes.map((s) => s / 2)
HalfCentre(cmp) == cmp.center \div 2
HalfButton(cmp, i) == cmp.buttons[i] \div 2

\* R[i] = Math.max(0, cr + b[i] - kissPx)
RadiusOf(cmp, i) == Max2(0, HalfCentre(cmp) + HalfButton(cmp, i) - cmp.kiss)

\* D[i] = Math.max(0, b[i] + b[i + 1] - kissPx)
NeighbourDistance(cmp, i) == Max2(0, HalfButton(cmp, i) + HalfButton(cmp, i + 1) - cmp.kiss)

\* deltas[i]: the angle at the centre of the triangle R[i], R[i + 1], D[i]
DeltaOf(cmp, i) ==
    ArcCos(RadiusOf(cmp, i) * RadiusOf(cmp, i) + RadiusOf(cmp, i + 1) * RadiusOf(cmp, i + 1)
               - NeighbourDistance(cmp, i) * NeighbourDistance(cmp, i),
           2 * RadiusOf(cmp, i) * RadiusOf(cmp, i + 1))

\* aRad[i] = aRad[i - 1] + deltas[i - 1]
RECURSIVE AngleOf(_, _)
AngleOf(cmp, i) ==
    IF i = 1 THEN FromDegrees(cmp.a0) ELSE AngleSum(AngleOf(cmp, i - 1), DeltaOf(cmp, i - 1))

\* Math.round(Math.cos(aRad[i]) * R[i]), and the same with sin; in quarter pixels
CentreRounded(v, r, d) == Quarter * RoundDiv(v * r, Quarter * d)

\* xC, yC of satellite i
CentreX(cmp, i) == CentreRounded(AngleOf(cmp, i).c, RadiusOf(cmp, i), AngleOf(cmp, i).d)
CentreY(cmp, i) == CentreRounded(AngleOf(cmp, i).s, RadiusOf(cmp, i), AngleOf(cmp, i).d)

\* What updateGeometry writes on the container and the buttons
GeometryOf(s, cmp) ==
    [yOrigin |-> Max2(0, (Quarter * s.props.boxH) \div 2 - HalfCentre(cmp)),
     R       |-> [i \in Satellites |-> RadiusOf(cmp, i)],
     a       |-> [i \in Satellites |-> AngleOf(cmp, i)],
     centreX |-> -HalfCentre(cmp),
     centreY |-> -HalfCentre(cmp),
     x       |-> [i \in Satellites |-> CentreX(cmp, i) - HalfButton(cmp, i)],
     y       |-> [i \in Satellites |-> CentreY(cmp, i) - HalfButton(cmp, i)]]

\* updateBoundingBox(aRad, R, btnSizes, centerSize): below 768 px the box is the rectangle
\* between facebook's left, linked-in's right, instagram's top and the centre's bottom
UpdateBoundingBox(s, vp, cmp) ==
    LET fb   == 2
        ig   == 3
        li   == 5
        dfb  == AngleOf(cmp, fb).d
        dli  == AngleOf(cmp, li).d
        dig  == AngleOf(cmp, ig).d
        \* right - left and bottom - top, as fractions of a quarter pixel
        boxWn == AngleOf(cmp, li).c * RadiusOf(cmp, li) * dfb
                 - AngleOf(cmp, fb).c * RadiusOf(cmp, fb) * dli
                 + (HalfButton(cmp, li) + HalfButton(cmp, fb)) * dfb * dli
        boxHn == (HalfCentre(cmp) + HalfButton(cmp, ig)) * dig
                 - AngleOf(cmp, ig).s * RadiusOf(cmp, ig)
        wPx  == RoundDiv(boxWn, Quarter * dfb * dli)
        hPx  == RoundDiv(boxHn, Quarter * dig)
    IN  IF vp.w >= TABLET_W THEN s
        ELSE IF cmp.center = 0 \/ \E i \in {fb, ig, li} : cmp.buttons[i] = 0 THEN s
        ELSE IF boxWn <= 0 \/ boxHn <= 0 THEN s
        ELSE [s EXCEPT !.props.boxW = wPx,
                       !.props.boxH = hPx,
                       !.writes = @ + (IF s.props.boxW # wPx THEN 1 ELSE 0)
                                    + (IF s.props.boxH # hPx THEN 1 ELSE 0)]

\* updateGeometry() in the window vp with the computed style cmp
UpdateGeometry(s, vp, cmp) ==
    IF ~s.el \/ ~s.centerBtn \/ ~s.btnEls THEN s
    ELSE UpdateBoundingBox([s EXCEPT !.props.geo = GeometryOf(s, cmp),
                                     !.writes = @ + 48], vp, cmp)

\* The body of the three listeners of initRadialBox
Recompute(s, vp, cmp) == UpdateGeometry(UpdateRadialScale(s, vp), vp, cmp)

RECURSIVE RecomputeTimes(_, _, _, _)
RecomputeTimes(s, vp, cmp, n) ==
    IF n = 0 THEN s ELSE RecomputeTimes(Recompute(s, vp, cmp), vp, cmp, n - 1)

\* Listener events, calls and frames in one behaviour
MaxRadialOps == 2

\* Windows the ring is shown in: every branch of fitScale and of the size rules
RadialViewports ==
    {[w |-> 320, h |-> 600], [w |-> 350, h |-> 780], [w |-> 480, h |-> 960],
     [w |-> 736, h |-> 600], [w |-> 800, h |-> 780], [w |-> 992, h |-> 960],
     [w |-> 1280, h |-> 600], [w |-> 1280, h |-> 960]}

\* Computed styles: a centre of 48.5 px with satellites of 16.5, 32.5 and 48.5 px, or one
\* of 150.5 px with satellites of 50.5, 100.5 and 150.5 px; --kiss is 0.5 px, --a0 a whole
\* number of quarter turns
ComputedStyles ==
    {[center |-> sz[1], buttons |-> <<sz[2], sz[3], sz[1], sz[3], sz[1], sz[3]>>,
      kiss |-> 2, a0 |-> deg] : sz \in {<<194, 66, 130>>, <<602, 202, 402>>},
                                deg \in {0, 90, 180, 270}}

NoProps == [centerBase |-> -1, btnBase |-> [i \in Satellites |-> -1], fitScale |-> -1,
            boxW |-> -1, boxH |-> -1, geo |-> <<>>]

\* initRadialBox() up to its first updateRadialScale(): what document.querySelector found
\* and the instance's fields
Constructed(radialEl, centerBtn, btnEls) ==
    [el |-> radialEl, centerBtn |-> centerBtn, btnEls |-> btnEls,
     lastScaleRatio |-> -SizeUnit, lastIsDesktop |-> "undefined", lastFitScale |-> -FitUnit,
     props |-> NoProps, writes |-> 0,
     orient |-> <<0, 0>>]

\* before: the properties before the last call or event; runs: how often the listeners'
\* body has run since the last frame began; scaledAt, prevScaledAt: the window of the latest
\* updateRadialScale() call, and of the one before the last call or event
NoRHist == [op |-> "none", before |-> NoProps, runs |-> 0,
            scaledAt |-> [w |-> 0, h |-> 0], prevScaledAt |-> [w |-> 0, h |-> 0]]

MayRadial == ops < MaxRadialOps

RadialRecord(op, runs, scales) ==
    /\ rhist' = [op |-> op, before |-> rad.props, runs |-> runs,
                 scaledAt |-> IF scales THEN viewport' ELSE rhist.scaledAt,
                 prevScaledAt |-> rhist.scaledAt]
    /\ ops' = ops + 1

RadialFrameCond ==
    UNCHANGED <<envVars, scaleVars, preVars, el, pivot, tween, meta, drag, hist, dragVars,
                computed, reducedMotion, bodyClasses, resizes, viewBox, currentLayoutMode,
                resizeAttached, dragRegistry, dragEnabled, centre, trailD, trailSW, ltw,
                base, dom, dialog>>

\* window 'resize': the listener recomputes at once
RadialResize ==
    \E vp \in RadialViewports :
        /\ MayRadial
        /\ viewport' = vp
        /\ rad' = Recompute([rad EXCEPT !.writes = 0], vp, computed)
        /\ RadialRecord("resize", rhist.runs + 1, TRUE)
        /\ RadialFrameCond

\* visualViewport 'resize' (keyboard, browser chrome): the listener recomputes at once
VisualViewportResize ==
    /\ MayRadial
    /\ UNCHANGED viewport
    /\ rad' = Recompute([rad EXCEPT !.writes = 0], viewport, computed)
    /\ RadialRecord("visualViewport", rhist.runs + 1, TRUE)
    /\ RadialFrameCond

\* 'orientationchange': the window is turned, the listener asks for a frame
OrientationChange ==
    /\ MayRadial
    /\ viewport' = [w |-> viewport.h, h |-> viewport.w]
    /\ rad' = [rad EXCEPT !.writes = 0, !.orient[1] = @ + 1]
    /\ RadialRecord("orientationchange", rhist.runs, FALSE)
    /\ RadialFrameCond

\* updateRadialScale() called once more
UpdateRadialScaleCall ==
    /\ MayRadial
    /\ UNCHANGED viewport
    /\ rad' = UpdateRadialScale([rad EXCEPT !.writes = 0], viewport)
    /\ RadialRecord("updateRadialScale", rhist.runs, TRUE)
    /\ RadialFrameCond

\* A rendering frame: the step of startGeometryLoop, then the callbacks the orientation
\* listener has asked for: the outer ones ask for the inner ones, the inner ones recompute
RadialFrame ==
    /\ MayRadial
    /\ UNCHANGED viewport
    /\ rad' = [RecomputeTimes(UpdateGeometry([rad EXCEPT !.writes = 0], viewport, computed),
                              viewport, computed, rad.orient[2])
                  EXCEPT !.orient = <<0, rad.orient[1]>>]
    /\ RadialRecord("frame", rad.orient[2], rad.orient[2] > 0)
    /\ RadialFrameCond

----------------------------------------------------------------------------
\* Initial states

InitEnv ==
    /\ now = 0
    /\ frameQ = <<>>
    /\ timers = {}
    /\ viewport \in Viewports
    /\ reducedMotion \in BOOLEAN
    /\ bodyClasses \in {{}, {"logo-faded"}}
    /\ resizes = 0

\* constructor: currentGroupScale = 1, logoCompact from the body attribute or from the
\* breakpoint; the nodes carry no scale yet (factor 1)
InitScale ==
    /\ currentGroupScale = ScaleOne
    /\ logoCompact \in BOOLEAN
    /\ nodeScale = [g \in Groups |-> ScaleOne]
    /\ scaleAnim = 0
    /\ scaleAnimCounter = 0
    /\ anims = <<>>
    /\ calls = <<>>

\* constructor, and the document as served: no viewBox sync yet, empty trail paths
InitLogo ==
    /\ viewBox = [w |-> 0, h |-> 0]
    /\ currentLayoutMode = "desktop"
    /\ resizeAttached = FALSE
    /\ dragRegistry = [g \in Groups |-> FALSE]
    /\ dragEnabled = [g \in Groups |-> FALSE]
    /\ centre = [g \in Groups |-> Place("base")]
    /\ trailD = [A |-> <<>>, B |-> <<>>]
    /\ trailSW = 0
    /\ ltw = [status |-> [g \in Groups |-> "none"], start |-> 0, target |-> Place("base")]
    /\ base = XY(0, 0)

\* runPreloader has not been called
InitPreloader ==
    /\ pc = [at |-> "boot", step |-> 0]
    /\ stab = [lastH |-> NoHeight, stable |-> 0, start |-> 0]
    /\ tw = [k \in Steps |-> [g \in Groups |-> "none"]]
    /\ twStart = 0
    /\ twTarget = [g \in Groups |-> Place("base")]
    /\ midway = 0
    /\ visited = <<"Idle">>
    /\ cur = [x |-> 0, y |-> 0, w |-> 1, h |-> 1]

\* An offset at which the numbers are 2 px apart
BigOffset == Significand

\* The element as the markup gives it: its inline style may carry a transform, nothing
\* is cached
Served == [store : {NoPart}, tr : {NoPart, Part(BigOffset, 1), Part(BigOffset - 1, 1)},
           sc : {0, ScaleHalf}, half : {HalfSize}]

\* No write of the translate engine has been applied; getTranslate may have been called
\* on the element, which caches its offset
InitEngine ==
    /\ el \in Served \cup {GetTranslateCaches(e) : e \in Served}
    /\ pivot \in {XY(0, 0), XY(8, 4)}
    /\ tween = IdleTween
    /\ meta = NoMeta
    /\ drag = NoDrag
    /\ hist = NoHist
    /\ ops = 0

\* The element of the engine's operations is left alone
InitEngineIdle == InitEngine /\ el = NoElement /\ pivot = XY(0, 0)

\* No pointer has touched the groups
InitDrags ==
    /\ nodes \in {[g \in Groups |-> NoElement], [g \in Groups |-> IF g = 3 THEN AtEdge ELSE NoElement]}
    /\ drags = [g \in Groups |-> NoDrag]
    /\ held = [g \in Groups |-> NoHold]
    /\ dhist = NoDHist

----------------------------------------------------------------------------
\* Missing DOM targets: updateTrail (_trail.js), applyTrailStrokeWidth (_compact.js) and
\* RadialBox.updateGeometry (_countdown.js) on a page where some targets were not found.
\* A method is followed statement by statement: a guard returns when its target is null,
\* a use or write of a null target throws a TypeError, which ends the method.

MaxDomCalls == 2       \* method calls in one behaviour

\* this.groups[i].handle, this.trailA/B, this.gradientA/B; the radial container, its centre
\* button and its six satellite buttons
Targets == {"handle1", "handle2", "handle3", "trailA", "trailB", "gradientA", "gradientB",
            "radialEl", "centerBtn", "btnEls"}

Guard(on)       == [kind |-> "guard", on |-> on, attr |-> ""]
Use(on)         == [kind |-> "use", on |-> on, attr |-> ""]
Write(on, attr) == [kind |-> "write", on |-> on, attr |-> attr]

\* The statements of a method run in order on the targets `has`; acc holds the writes made
RECURSIVE RunStatements(_, _, _)
RunStatements(stmts, has, acc) ==
    IF stmts = <<>> THEN [written |-> acc, threw |-> FALSE]
    ELSE LET st == Head(stmts)
         IN  IF ~has[st.on]
             THEN [written |-> acc, threw |-> st.kind # "guard"]
             ELSE RunStatements(Tail(stmts), has,
                                IF st.kind = "write" THEN Append(acc, <<st.on, st.attr>>)
                                                     ELSE acc)

\* anchorFromHandle(handle): handle.getBoundingClientRect(), then halfStrokePx(), whose
\* this.trailA.getAttribute('vector-effect') is not optional-chained
AnchorFromHandle(handle) == <<Use(handle), Use("trailA")>>

\* updateTrail(): three anchors, then the two d attributes and the gradients' end points
UpdateTrailStatements ==
    AnchorFromHandle("handle1") \o AnchorFromHandle("handle2") \o AnchorFromHandle("handle3")
    \o <<Write("trailA", "d"), Write("trailB", "d"),
         Write("gradientA", "x1"), Write("gradientA", "y1"),
         Write("gradientA", "x2"), Write("gradientA", "y2"),
         Write("gradientB", "x1"), Write("gradientB", "y1"),
         Write("gradientB", "x2"), Write("gradientB", "y2")>>

\* applyTrailStrokeWidth(): if (!this.trailA || !this.trailB) return
ApplyTrailStrokeWidthStatements ==
    <<Guard("trailA"), Guard("trailB"),
      Write("trailA", "stroke-width"), Write("trailB", "stroke-width")>>

\* updateGeometry(): its three guards, then --y-origin, --R and --a on the container, the
\* centre button's five properties and the satellites' five properties
UpdateGeometryStatements ==
    <<Guard("radialEl"), Guard("centerBtn"), Guard("btnEls"),
      Write("radialEl", "--y-origin"), Write("radialEl", "--R"), Write("radialEl", "--a"),
      Write("centerBtn", "--size"), Write("centerBtn", "--radius"),
      Write("centerBtn", "--angle"), Write("centerBtn", "--x"), Write("centerBtn", "--y"),
      Write("btnEls", "--size"), Write("btnEls", "--radius"), Write("btnEls", "--angle"),
      Write("btnEls", "--x"), Write("btnEls", "--y")>>

\* The targets a method works on
TargetsOf(stmts) == {stmts[i].on : i \in 1..Len(stmts)}

\* A page on which no method has been called yet
NoCall(has) == [has |-> has, op |-> "none", needs |-> {}, written |-> <<>>,
                threw |-> FALSE, calls |-> 0]

\* One call of the method `op` with the statements stmts
DomCall(op, stmts) ==
    /\ dom.calls < MaxDomCalls
    /\ dom' = [has |-> dom.has, op |-> op, needs |-> TargetsOf(stmts),
               written |-> RunStatements(stmts, dom.has, <<>>).written,
               threw |-> RunStatements(stmts, dom.has, <<>>).threw,
               calls |-> dom.calls + 1]
    /\ UNCHANGED <<envVars, scaleVars, logoVars, preVars, engVars, dragVars, radVars, dialog>>

UpdateTrailCall           == DomCall("updateTrail", UpdateTrailStatements)
ApplyTrailStrokeWidthCall == DomCall("applyTrailStrokeWidth", ApplyTrailStrokeWidthStatements)
UpdateGeometryCall        == DomCall("updateGeometry", UpdateGeometryStatements)

----------------------------------------------------------------------------
\* No RadialBox has been constructed
InitNoRadial ==
    /\ rad = Constructed(FALSE, FALSE, FALSE)
    /\ computed = [center |-> 194, buttons |-> <<66, 130, 194, 130, 194, 130>>,
                   kiss |-> 2, a0 |-> 180]
    /\ rhist = NoRHist

\* setLogoCompact (_compact.js) called by the page, animated (the default) or immediate

\* animateGroupScaleTransform's default duration (ms)
DefaultScaleDuration == 400

\* const targetScale = this.logoCompact ? 0.5 : 1
TargetScale(on) == IF on THEN ScaleHalf ELSE ScaleOne

\* What the controller's code leaves apart from the scale controller and the trail
CompactFrame ==
    UNCHANGED <<now, timers, viewport, reducedMotion, bodyClasses, resizes, viewBox,
                currentLayoutMode, resizeAttached, dragRegistry, dragEnabled, centre, ltw,
                base, preVars, pivot, tween, meta, drag, hist, ops, restVars>>

\* The branch without animation: applyGroupScaleTransform(), updateTrail(),
\* Promise.resolve()
SetLogoCompactNow(on) ==
    \E s \in {SetLogoCompactImmediate(Prog, on)} :
        /\ logoCompact' = s.logoCompact
        /\ trailSW' = s.trailSW
        /\ trailD' = s.trailD
        /\ nodeScale' = s.nodeScale
        /\ currentGroupScale' = s.currentGroupScale
        /\ el' = s.el
        /\ calls' = Append(calls, [target |-> TargetScale(on), token |-> 0, cancelled |-> 0])
        /\ UNCHANGED <<raf, frameQ, anims, scaleAnim, scaleAnimCounter>>

\* setLogoCompact(on): shouldAnimate = animate && !prefersReducedMotion(). The
\* continuation updateTrail() of a promise runs as soon as the promise is resolved: at
\* once for a superseded animation's and for Promise.resolve()
SetLogoCompactAnimatedCall ==
    \E on \in BOOLEAN :
        /\ frameQ = <<>>
        /\ Len(calls) < MaxCalls
        /\ IF reducedMotion
           THEN SetLogoCompactNow(on)
           ELSE /\ logoCompact' = on
                /\ trailSW' = ApplyTrailStrokeWidth([Prog EXCEPT !.logoCompact = on]).trailSW
                /\ AnimateGroupScaleTransform(TargetScale(on), DefaultScaleDuration)
                /\ trailD' = IF \/ Cancels(anims, scaleAnim)
                                \/ SameScale(currentGroupScale, TargetScale(on))
                             THEN UpdateTrail(Prog).trailD
                             ELSE trailD
                /\ UNCHANGED <<currentGroupScale, nodeScale, el>>
        /\ CompactFrame

\* setLogoCompact(on, {animate: false})
SetLogoCompactImmediateCall ==
    \E on \in BOOLEAN :
        /\ frameQ = <<>>
        /\ Len(calls) < MaxCalls
        /\ SetLogoCompactNow(on)
        /\ CompactFrame

\* step(now) of an animation setLogoCompact started: when it resolves the promise,
\* the continuation updateTrail() runs
CompactStep ==
    /\ Step
    /\ trailD' = IF \E a \in 1..Len(anims) : anims[a].resolves = 0 /\ anims'[a].resolves = 1
                 THEN UpdateTrail(Prog).trailD
                 ELSE trailD
    /\ UNCHANGED <<viewport, reducedMotion, bodyClasses, resizes, viewBox,
                   currentLayoutMode, resizeAttached, dragRegistry, dragEnabled, centre,
                   trailSW, ltw, base>>

----------------------------------------------------------------------------
\* The countdown dialog (class CountdownDialog, _countdown.js). Times are whole seconds:
\* the clock is Date.now(), the interval's period is one second

\* Bounds: seconds of a behaviour, calls of the page's API
MaxClock   == 6
MaxCdCalls == 3

DaySeconds == 86400

\* The strings given to setTarget, as new Date(iso) reads them: an invalid date, or a time
Isos == {[valid |-> FALSE, time |-> 0]} \cup
        {[valid |-> TRUE, time |-> t] : t \in {0, 2, 4, DaySeconds + 3}}

\* pad2(n) = String(Math.max(0, Math.floor(n))).padStart(2, '0'): the number it renders
pad2(n) == Max2(0, n)

\* The days, hours, minutes and seconds tick() writes for a difference
Digits(diff) ==
    [dd |-> diff \div DaySeconds,
     hh |-> pad2((diff % DaySeconds) \div 3600),
     mm |-> pad2((diff % 3600) \div 60),
     ss |-> pad2(diff % 60)]

\* if (!force && days === 0 && hours === 0 && minutes === 0 && seconds === 0)
StopsAtZero(force, d) == ~force /\ d.dd = 0 /\ d.hh = 0 /\ d.mm = 0 /\ d.ss = 0

\* tick(force): the digits are rewritten; at zero an unforced tick stops the timer
\* (clearInterval also drops a callback that is due)
Tick(given, force) ==
    Only({
    LET diff == Max2(0, c.target - c.clock)
    IN  IF StopsAtZero(force, Digits(diff)) /\ c.timer
        THEN [c EXCEPT !.shown = Digits(diff), !.timer = FALSE, !.due = FALSE]
        ELSE [c EXCEPT !.shown = Digits(diff)] : c \in {given} })

\* start()
Start(given) ==
    Only({ IF c.timer THEN c ELSE Tick([c EXCEPT !.timer = TRUE], TRUE) : c \in {given} })

\* setTarget(isoString): an invalid date is ignored
SetTarget(given, iso) ==
    Only({ IF iso.valid THEN Tick([c EXCEPT !.target = iso.time], TRUE) ELSE c : c \in {given} })

\* new CountdownDialog(dialog): target from data-target (or a day from now), tick(), start()
NewCountdownDialog(target) ==
    Start(Tick([target |-> target, timer |-> FALSE, due |-> FALSE, clock |-> 0,
                shown |-> Digits(0), open |-> FALSE, closing |-> FALSE,
                op |-> "new", calls |-> 0], FALSE))

\* No dialog[data-countdown] on the page: boot() returns
NoCountdown ==
    [target |-> 0, timer |-> FALSE, due |-> FALSE, clock |-> 0, shown |-> Digits(0),
     open |-> FALSE, closing |-> FALSE, op |-> "none", calls |-> 0]

InitNoCountdown == dialog = NoCountdown

CdFrame == UNCHANGED <<envVars, scaleVars, logoVars, preVars, engVars, dragVars, radVars, dom>>

MayCallCd == dialog.calls < MaxCdCalls /\ ~dialog.due

\* A second passes; the interval's callback becomes due when the timer is set
Second ==
    /\ dialog.clock < MaxClock
    /\ ~dialog.due
    /\ dialog' = [dialog EXCEPT !.clock = @ + 1, !.due = dialog.timer]
    /\ CdFrame

\* setInterval(() => this.tick(), 1000): the callback
IntervalTick ==
    /\ dialog.due
    /\ dialog' = Tick([dialog EXCEPT !.due = FALSE], FALSE)
    /\ CdFrame

\* window.NeeedaCountdown.setTarget(iso)
SetTargetCall ==
    \E iso \in Isos :
        /\ MayCallCd
        /\ dialog' = [SetTarget(dialog, iso) EXCEPT !.op = IF iso.valid THEN "setTarget" ELSE "ignored",
                                            !.calls = @ + 1]
        /\ CdFrame

\* open(): showModal() unless open, then start()
OpenCall ==
    /\ MayCallCd
    /\ dialog' = [Start([dialog EXCEPT !.open = TRUE]) EXCEPT !.op = "open", !.calls = @ + 1]
    /\ CdFrame

\* close(): the exit animation is started; the timer is left running
CloseCall ==
    /\ MayCallCd
    /\ dialog' = [dialog EXCEPT !.closing = dialog.open, !.op = "close", !.calls = @ + 1]
    /\ CdFrame

\* transitionend on the dialog: dialog.close()
TransitionEnd ==
    /\ dialog.closing
    /\ dialog' = [dialog EXCEPT !.open = FALSE, !.closing = FALSE]
    /\ CdFrame

----------------------------------------------------------------------------
\* Every target was found
InitDom == dom = NoCall([x \in Targets |-> TRUE])

InitRest ==
    InitDrags /\ nodes = [g \in Groups |-> NoElement] /\ InitNoRadial /\ InitDom /\ InitNoCountdown

\* A constructed controller on a desktop window whose init() is not called (as the
\* scale tests build it): the scale controller is driven by its callers
Init ==
    /\ InitEnv /\ InitScale /\ InitLogo /\ InitPreloader /\ InitEngineIdle /\ InitRest
    /\ raf = <<>>
    /\ viewport = Desktop /\ ~reducedMotion /\ bodyClasses = {} /\ ~logoCompact

NextScale == AnimateCall \/ ScaleStep \/ BeginFrame \/ BeginLateFrame

SpecScale == Init /\ [][NextScale]_vars

\* A constructed controller whose callers toggle compact mode; logoCompact starts from
\* the body attribute or the breakpoint
InitCompact ==
    /\ InitEnv /\ InitScale /\ InitLogo /\ InitPreloader /\ InitEngineIdle /\ InitRest
    /\ raf = <<>>
    /\ viewport = Desktop /\ bodyClasses = {}

\* Frames come at the regular period here
NextCompact ==
    \/ SetLogoCompactAnimatedCall \/ SetLogoCompactImmediateCall \/ CompactStep
    \/ BeginFrame

SpecCompact == InitCompact /\ [][NextCompact]_vars

\* new InteractiveNeeedaLogo().init(): the first frame callback is requested
InitPre ==
    /\ InitEnv /\ InitScale /\ InitLogo /\ InitPreloader /\ InitEngine /\ InitRest
    /\ el = NoElement
    /\ raf = <<RafCb("boot1", 0)>>

NextPre ==
    \/ BootFirst \/ BootSecond \/ StabilityLoop \/ NextFrameCb \/ TweenFrame
    \/ ResizeEvent \/ ResizeFrame \/ TimerSleep \/ TimerReveal \/ AwaitTimer \/ BeginFrame

SpecPre == InitPre /\ [][NextPre]_vars

\* The engine's functions called on an element of a page whose controller is idle
InitTranslate ==
    /\ InitEnv /\ InitScale /\ InitLogo /\ InitPreloader /\ InitEngine /\ InitRest
    /\ raf = <<>>
    /\ viewport = Desktop /\ ~reducedMotion /\ bodyClasses = {} /\ ~logoCompact

NextTranslate ==
    \/ SetTranslateOp \/ IncTranslateOp \/ GetTranslateOp \/ ClampOp
    \/ ApplyScaleOp \/ ScaleAnimStartOp \/ ScaleAnimFrameOp
    \/ AnimateTranslateCall \/ TranslateFrame
    \/ PointerDown \/ PointerMove \/ PointerUp
    \/ BeginFrame \/ BeginLateFrame

SpecTranslate == InitTranslate /\ [][NextTranslate]_vars

\* Half sizes of a group's box: small, middling, and wider than the phone's safe rectangle
BoxHalves == {HalfSize, XY(60, 20), XY(200, 8)}

\* Offsets a group may have been left at: inside the window and beyond each of its edges
ClampOffsets == {Part(x, y) : x \in {-100, 0, 150, 1400}, y \in {-100, 0, 900}}

\* clampGroupBox called on a group of any size, at any offset, on either window
InitClamp ==
    /\ InitEnv /\ InitScale /\ InitLogo /\ InitPreloader /\ InitRest
    /\ el \in [store : {NoPart}, tr : ClampOffsets, sc : {0, ScaleHalf}, half : BoxHalves]
    /\ pivot = XY(0, 0)
    /\ tween = IdleTween /\ meta = NoMeta /\ drag = NoDrag /\ hist = NoHist /\ ops = 0
    /\ raf = <<>>
    /\ reducedMotion = FALSE /\ bodyClasses = {} /\ logoCompact = FALSE

NextClamp == ClampOp

SpecClamp == InitClamp /\ [][NextClamp]_vars

\* init() has run setupDrag for the three groups on a desktop window: the groups are
\* registered and their listeners attached; the user and the controller take turns
InitDrag ==
    /\ InitEnv /\ InitScale /\ InitPreloader /\ InitEngineIdle /\ InitDrags /\ InitNoRadial
    /\ InitDom /\ InitNoCountdown
    /\ viewBox = [w |-> 0, h |-> 0]
    /\ currentLayoutMode = "desktop"
    /\ resizeAttached = FALSE
    /\ dragRegistry = [g \in Groups |-> TRUE]
    /\ dragEnabled = [g \in Groups |-> TRUE]
    /\ centre = [g \in Groups |-> Place("base")]
    /\ trailD = TrailOfNodes(nodes)
    /\ trailSW = 0
    /\ ltw = [status |-> [g \in Groups |-> "none"], start |-> 0, target |-> Place("base")]
    /\ base = XY(0, 0)
    /\ raf = <<>>
    /\ viewport = Desktop /\ ~reducedMotion /\ bodyClasses = {} /\ ~logoCompact

NextDrag == Press \/ Move \/ Release \/ SetDragEnabledCall

SpecDrag == InitDrag /\ [][NextDrag]_vars

\* Where the groups may be when they are sent to their anchors: as served, or spread out
AnchorOffsets == {<<NoPart, NoPart, NoPart>>, <<Part(-100, 0), Part(150, 900), Part(1400, -100)>>}

\* The three groups, of any sizes and at either scale, on either window
InitAnchor ==
    /\ InitEnv /\ InitScale /\ InitPreloader /\ InitEngineIdle /\ InitNoRadial /\ InitDom
    /\ InitNoCountdown
    /\ \E hs \in [Groups -> BoxHalves], offs \in AnchorOffsets, sc \in {0, ScaleHalf} :
          nodes = [g \in Groups |-> [store |-> NoPart, tr |-> offs[g], sc |-> sc, half |-> hs[g]]]
    /\ drags = [g \in Groups |-> NoDrag]
    /\ held = [g \in Groups |-> NoHold]
    /\ dhist = NoDHist
    /\ viewBox = [w |-> 0, h |-> 0]
    /\ currentLayoutMode = "desktop"
    /\ resizeAttached = FALSE
    /\ dragRegistry = [g \in Groups |-> TRUE]
    /\ dragEnabled = [g \in Groups |-> TRUE]
    /\ centre = [g \in Groups |-> Place("base")]
    /\ trailD = TrailOfNodes(nodes)
    /\ trailSW = 0
    /\ ltw = [status |-> [g \in Groups |-> "none"], start |-> 0, target |-> Place("base")]
    /\ base = XY(0, 0)
    /\ raf = <<>>
    /\ reducedMotion = FALSE /\ bodyClasses = {} /\ logoCompact = FALSE

NextAnchor == RepositionCall

SpecAnchor == InitAnchor /\ [][NextAnchor]_vars

\* new RadialBox(): initRadialBox() has looked up the container, recomputed once, started
\* the geometry loop and installed its listeners. The container or its buttons may be
\* missing from the page
InitRadial ==
    /\ now = 0 /\ raf = <<>> /\ frameQ = <<>> /\ timers = {}
    /\ viewport \in RadialViewports
    /\ reducedMotion = FALSE /\ bodyClasses = {} /\ resizes = 0
    /\ InitScale /\ InitLogo /\ InitPreloader /\ InitEngineIdle /\ InitDrags
    /\ nodes = [g \in Groups |-> NoElement] /\ ~logoCompact /\ InitDom /\ InitNoCountdown
    /\ computed \in ComputedStyles
    /\ \E found \in {<<FALSE, FALSE, FALSE>>, <<TRUE, FALSE, FALSE>>, <<TRUE, TRUE, FALSE>>,
                      <<TRUE, TRUE, TRUE>>} :
            rad = Recompute(Constructed(found[1], found[2], found[3]), viewport, computed)
    /\ rhist = [NoRHist EXCEPT !.scaledAt = viewport, !.prevScaledAt = viewport]

NextRadial ==
    \/ RadialResize \/ VisualViewportResize \/ OrientationChange \/ UpdateRadialScaleCall
    \/ RadialFrame

SpecRadial == InitRadial /\ [][NextRadial]_vars

\* A constructed controller and ring on a page where any of the targets may be missing
InitMissing ==
    /\ InitEnv /\ InitScale /\ InitLogo /\ InitPreloader /\ InitEngineIdle
    /\ InitDrags /\ nodes = [g \in Groups |-> NoElement] /\ InitNoRadial
    /\ raf = <<>>
    /\ viewport = Desktop /\ ~reducedMotion /\ bodyClasses = {} /\ ~logoCompact
    /\ \E has \in [Targets -> BOOLEAN] : dom = NoCall(has)
    /\ InitNoCountdown

NextMissing == UpdateTrailCall \/ ApplyTrailStrokeWidthCall \/ UpdateGeometryCall

SpecMissing == InitMissing /\ [][NextMissing]_vars

\* The page has a countdown dialog: boot() has constructed its controller, whose target
\* is the data-target attribute or, without one, a day from now
InitCountdown ==
    /\ InitEnv /\ InitScale /\ InitLogo /\ InitPreloader /\ InitEngineIdle
    /\ InitDrags /\ nodes = [g \in Groups |-> NoElement] /\ InitNoRadial /\ InitDom
    /\ raf = <<>>
    /\ viewport = Desktop /\ reducedMotion = FALSE /\ bodyClasses = {} /\ logoCompact = FALSE
    /\ dialog \in {NewCountdownDialog(t) : t \in {1, 3, DaySeconds}}

NextCountdown ==
    Second \/ IntervalTick \/ SetTargetCall \/ OpenCall \/ CloseCall \/ TransitionEnd

SpecCountdown == InitCountdown /\ [][NextCountdown]_vars

\* What the browser's event loop runs: frames and their callbacks, timers
EventLoop ==
    \/ BootFirst \/ BootSecond \/ StabilityLoop \/ NextFrameCb \/ TweenFrame
    \/ ResizeFrame \/ TimerSleep \/ TimerReveal \/ AwaitTimer \/ BeginFrame

\* The event loop keeps running: a requested frame is rendered and its callbacks run, a
\* timer that is due fires. When the window is resized is up to the user
SpecPreFair == SpecPre /\ WF_vars(EventLoop)

----------------------------------------------------------------------------
\* Properties of the scale controller

Tokens == 1..Len(anims)

\* The promise of animation a has been resolved
Resolved(a) == anims[a].resolves >= 1

\* In flight: a pending frame callback and an unresolved promise
InFlight(a) == ScalePending(a) /\ ~Resolved(a)

NoneInFlight == \A a \in Tokens : ~InFlight(a)

\* The promise a call returned has been resolved (Promise.resolve() at once, token 0)
CallSettled(c) == c.token = 0 \/ Resolved(c.token)

\* Call i started an animation and call i+1, towards another target, found it in flight
Superseded(i) ==
    /\ calls[i].token # 0
    /\ calls[i + 1].cancelled = calls[i].token
    /\ calls[i + 1].target # calls[i].target

\* C1: when animation A is superseded in flight by a request B towards a different
\* target, A's promise is resolved at once, B's promise is resolved or still has the
\* frame callback that will resolve it, and once both have settled (no later request
\* made) currentGroupScale is B's target and not A's.
C1_LaterTargetWins ==
    \A i \in 1..(Len(calls) - 1) :
        Superseded(i) =>
            /\ Resolved(calls[i].token)
            /\ (CallSettled(calls[i + 1]) \/ ScalePending(calls[i + 1].token))
            /\ (i + 1 = Len(calls) /\ CallSettled(calls[i + 1])) =>
                  /\ currentGroupScale = calls[i + 1].target
                  /\ currentGroupScale # calls[i].target

\* C1 witness: A ran a frame, B superseded it, both promises are resolved
C1_Witness ==
    /\ Len(calls) = 2
    /\ Superseded(1)
    /\ anims[calls[1].token].frames >= 1
    /\ Resolved(calls[1].token)
    /\ CallSettled(calls[2])

\* C2: at most one scale animation is in flight; whenever a newer animation exists or a
\* newer request has returned, every earlier animation is resolved and has no frame
\* callback left.
C2_AtMostOneInFlight ==
    /\ Cardinality({a \in Tokens : InFlight(a)}) <= 1
    /\ \A a \in Tokens : a < Len(anims) => Resolved(a) /\ ~ScalePending(a)
    /\ (calls # <<>> /\ calls[Len(calls)].token = 0) => NoneInFlight

\* C2 witness: the first animation was cancelled after a frame and the second is in flight
C2_Witness ==
    /\ Len(anims) = 2
    /\ anims[1].cancelled
    /\ anims[1].frames >= 1
    /\ InFlight(2)

\* C3: every animation's promise is resolved at most once; it is resolved exactly when
\* the animation ran its final frame or was cancelled, and never by both.
C3_ResolvedExactlyOnce ==
    \A a \in Tokens :
        /\ anims[a].resolves <= 1
        /\ Resolved(a) <=> (anims[a].settled \/ anims[a].cancelled)
        /\ ~(anims[a].settled /\ anims[a].cancelled)
        /\ anims[a].settled => anims[a].resolvedBy = "frame"
        /\ anims[a].cancelled => anims[a].resolvedBy = "cancel"

\* C3 witness: one animation resolved by cancellation, a later one by its final frame,
\* and a further request made after that
C3_Witness ==
    /\ Len(anims) = 2
    /\ Len(calls) = 3
    /\ anims[1].resolvedBy = "cancel"
    /\ anims[2].resolvedBy = "frame"

\* C4 (as claimed): whenever no scale animation is in flight every group's rendered
\* scale factor is 0.5 or 1 and equals currentGroupScale.
C4_RestingScaleIsCommitted ==
    (NoneInFlight /\ frameQ = <<>>) =>
        \A g \in Groups : /\ nodeScale[g] \in {ScaleHalf, ScaleOne}
                          /\ nodeScale[g] = currentGroupScale

----------------------------------------------------------------------------
\* Claims about the preloader (checked under SpecPre)

\* The states of the animated path, in order
Path == <<"Idle", "Packed", "Wiggled", "Pose3", "Pose4", "Anchored">>

IsPrefix(p, q) == Len(p) <= Len(q) /\ \A i \in 1..Len(p) : p[i] = q[i]

\* A tween of step k has been started / all three tweens of step k have resolved
Started(k)   == \E g \in Groups : tw[k][g] # "none"
Completed(k) == \A g \in Groups : tw[k][g] = "resolved"

RunStarted      == pc.at # "boot"
ReachedAnchored == \E i \in 1..Len(visited) : visited[i] = "Anchored"

\* C5: in the animated path the states are visited in the order Idle, Packed, Wiggled,
\* Pose3, Pose4, Anchored, none skipped or repeated; the wiggle starts only from Packed,
\* every later step's tweens start only when the previous step's three tweens have
\* resolved, and a state is entered exactly when the step leading to it has completed.
C5_StatesInOrder ==
    ~reducedMotion =>
        /\ IsPrefix(visited, Path)
        /\ Started(1) => Len(visited) >= 2
        /\ \A k \in 2..LastStep : Started(k) => Completed(k - 1)
        /\ \A k \in Steps : Len(visited) >= k + 2 <=> Completed(k)

C5_Witness == ~reducedMotion /\ visited = Path /\ pc.at = "done"

\* C6: with reduced motion the preloader goes from Idle directly to Anchored, starts no
\* tween, and at the end the groups are at their anchors, both trail paths are non-empty
\* and loader-done is set.
C6_ReducedMotionDirect ==
    reducedMotion =>
        /\ IsPrefix(visited, <<"Idle", "Anchored">>)
        /\ \A k \in Steps : ~Started(k)
        /\ pc.at = "done" =>
            /\ \A g \in Groups : centre[g].pose = "anchor"
            /\ trailD.A # <<>> /\ trailD.B # <<>>
            /\ "loader-done" \in bodyClasses

\* C7: from the start of runPreloader until Anchored is reached no group can be dragged,
\* whatever the resize handling does meanwhile.
C7_DragDisabledDuringSequence ==
    (RunStarted /\ ~ReachedAnchored) => \A g \in Groups : ~dragEnabled[g]

\* A breakpoint was crossed by a resize while the tweens of a step were running
C7_Witness ==
    /\ pc.at = "tween"
    /\ currentLayoutMode = "mobile"
    /\ \A g \in Groups : dragRegistry[g] /\ ~dragEnabled[g]

\* C8: once Anchored is reached, by either path, all three groups can be dragged.
C8_DragEnabledAtAnchored ==
    ReachedAnchored => \A g \in Groups : dragEnabled[g]

\* C9: a run that has reached Anchored has emitted logo:midway exactly once.
C9_MidwayOnceAtAnchored ==
    ReachedAnchored => midway = 1

\* C10: logo:midway has been emitted only if the three tweens towards Pose3 have all
\* resolved, and a tween towards Pose4 has started only if it has been emitted.
C10_MidwayBetweenPose3AndPose4 ==
    /\ midway >= 1 => Completed(2)
    /\ Started(3) => midway >= 1

C10_Witness == midway = 1 /\ Completed(2) /\ ~Started(3)

\* C11: under fair scheduling of frames and timers every run of runPreloader eventually
\* reaches Anchored with loader-done set, with and without reduced motion.
C11_EventuallyAnchored ==
    <>(pc.at = "done" /\ ReachedAnchored /\ "loader-done" \in bodyClasses)

\* Anchored is reached in a run during which the window was resized, after the
\* stability gate had last looked at its height
C11_Witness ==
    /\ pc.at = "done" /\ ReachedAnchored /\ "loader-done" \in bodyClasses
    /\ resizes >= 1 /\ stab.lastH # viewport.h

\* The final tweens are running
FinalTweens == pc = [at |-> "tween", step |-> LastStep]

\* C12: in the animated path loader-done is set revealMs = max(0, duration - 500) after the
\* final tweens start (not earlier, and at the latest one frame period later), and it is
\* already set in the state in which the last of the three final tweens resolves.
C12_RevealBeforeFinalTweensEnd ==
    /\ [](~reducedMotion =>
            /\ "loader-done" \in bodyClasses => Started(LastStep) /\ now >= twStart + revealMs
            /\ (FinalTweens /\ now >= twStart + revealMs + FrameMs)
                    => "loader-done" \in bodyClasses)
    /\ [][(~reducedMotion /\ ~Completed(LastStep) /\ Completed(LastStep)')
            => "loader-done" \in bodyClasses]_vars

C12_Witness ==
    /\ ~reducedMotion /\ FinalTweens
    /\ "loader-done" \in bodyClasses
    /\ ~Completed(LastStep)
    /\ now < twStart + TO_POSE_dur

\* The run is over in the window it started in
DoneUnresized == pc.at = "done" /\ resizes = 0

\* C13: from the same layout, window and compact flag, the reduced-motion path and the
\* animated path leave the group with the same final centre: run by run, the centre of
\* v1 at the end is its anchor target, which the window and the compact flag determine
C13_SameFinalCentre == DoneUnresized => CenterOfNode(el) = AnchorTargetsPx(el)

----------------------------------------------------------------------------
\* Claims about the translate engine (checked under SpecTranslate)

\* The cached offset, if there is one, is the translate of the rendered transform
CacheConsistent(e) == e.store.set => XY(e.store.x, e.store.y) = ParseTranslate(e)

\* C14: after every operation (setTranslate, incTranslate, a tween frame, a drag event,
\* clampGroupBox, an immediate scale, a scale-animation frame) the element's cached
\* offset equals the translate component of its rendered transform.
C14_CacheMatchesTransform == CacheConsistent(el)

\* C15: getTranslate after setTranslate(el, x, y) returns exactly {x, y}, and getTranslate
\* of an element without cached offset and without translate returns {0, 0}.
C15_SetGetRoundTrip ==
    /\ hist.op = "set" => GetTranslate(el) = XY(hist.x, hist.y)
    /\ (hist.op = "get" /\ hist.pop = "set") => XY(hist.x, hist.y) = XY(hist.px, hist.py)
    /\ (hist.op = "get" /\ ~hist.before.store.set /\ ~hist.before.tr.set)
            => XY(hist.x, hist.y) = XY(0, 0)

C15_Witness ==
    /\ hist.op = "get" /\ hist.pop = "set"
    /\ hist.pbefore.tr.set /\ XY(hist.pbefore.tr.x, hist.pbefore.tr.y) # XY(hist.px, hist.py)

\* Two incTranslate calls in a row have just been applied
TwoIncs == hist.op = "inc" /\ hist.pop = "inc"

\* The offset the single call incTranslate(el, dx1 + dx2, dy1 + dy2) leaves
SingleInc ==
    GetTranslate(IncTranslate(hist.pbefore, Add(hist.px, hist.x), Add(hist.py, hist.y)))

NoRounding ==
    LET st == GetTranslate(hist.pbefore)
        ex(a, b) == Add(a, b) = a + b
    IN  /\ ex(st.x, hist.px) /\ ex(st.x + hist.px, hist.x)
        /\ ex(hist.px, hist.x) /\ ex(st.x, hist.px + hist.x)
        /\ ex(st.y, hist.py) /\ ex(st.y + hist.py, hist.y)
        /\ ex(hist.py, hist.y) /\ ex(st.y, hist.py + hist.y)

TranslateWrites == {"set", "inc", "frame", "move", "clamp", "down", "up", "animate", "get"}

\* C17: every write of the translate offset leaves the scale factor of the rendered
\* transform as it was.
C17_TranslateKeepsScale ==
    hist.op \in TranslateWrites => el.sc = hist.before.sc

C17_Witness ==
    /\ hist.op \in {"set", "inc", "frame", "move"}
    /\ el.sc = ScaleHalf
    /\ el.tr # hist.before.tr

\* C18: when the promise of animateTranslate(el, dx, dy) resolves, the offset is exactly
\* start + (dx, dy), start being the offset when animateTranslate was called, whatever
\* the frame times and whatever was written meanwhile.
C18_TweenEndsAtStartPlusDelta ==
    (hist.op = "frame" /\ tween.status = "resolved") =>
        /\ GetTranslate(el) = XY(Add(tween.sx, tween.dx), Add(tween.sy, tween.dy))
        /\ ParseTranslate(el) = GetTranslate(el)

\* The tween took more than one frame and another write came in between
C18_Witness ==
    /\ hist.op = "frame" /\ tween.status = "resolved"
    /\ tween.pt > 0 /\ tween.pt < 1000
    /\ hist.pop \in {"set", "inc"}

\* The sampled points t = 0, 0.1, ..., 1 (per mille)
Samples == {100 * i : i \in 0..10}

\* C19: power2InOut and power3InOut give 0 at 0 and 1 at 1, stay within [0, 1] and do
\* not decrease, over the sampled points t = 0, 0.1, ..., 1 and over the frames of a tween.
C19_EasingBoundedMonotone ==
    /\ \A name \in EaseNames :
        /\ EasingByName(name, 0) = 0
        /\ EasingByName(name, 1000) = 1000
        /\ \A t \in Samples : EasingByName(name, t) >= 0 /\ EasingByName(name, t) <= 1000
        /\ \A t \in Samples \ {1000} : EasingByName(name, t) <= EasingByName(name, t + 100)
    /\ tween.status # "none" =>
        /\ tween.k >= 0 /\ tween.k <= 1000
        /\ tween.t >= tween.pt => tween.k >= tween.pk
        /\ tween.t = 1000 => tween.k = 1000

C19_Witness ==
    /\ tween.status = "running"
    /\ tween.ease = "power2.inOut"
    /\ tween.t > 0 /\ tween.t < 1000
    /\ tween.k > 0 /\ tween.k < 1000

\* The element's box lies inside the safe rectangle
InsideSafeRect(e) ==
    LET g == BoundingRect(e)
    IN  /\ g.left >= SvgRect.left + SafeAreaPadding
        /\ g.right <= SvgRect.right - SafeAreaPadding
        /\ g.top >= SvgRect.top + SafeAreaPadding
        /\ g.bottom <= SvgRect.bottom - SafeAreaPadding

\* C20: clampGroupBox of a group whose box is inside the safe rectangle leaves the offset
\* and the transform string as they were.
C20_ClampNoOpInside ==
    (hist.op = "clamp" /\ InsideSafeRect(hist.before)) =>
        /\ el.tr = hist.before.tr /\ el.sc = hist.before.sc
        /\ GetTranslate(el) = GetTranslate(hist.before)

\* ... also for a group without translate in its transform, and for a translated one
C20_Witness ==
    /\ hist.op = "clamp" /\ InsideSafeRect(hist.before)
    /\ hist.pop = "set"

\* C21: after clampGroupBox of a group whose box was not fully inside the safe rectangle
\* the box lies fully inside it.
C21_ClampBringsInside ==
    (hist.op = "clamp" /\ ~InsideSafeRect(hist.before)) => InsideSafeRect(el)

\* C22: in every interleaving of presses, moves, releases and setDragEnabled calls, a
\* pointer move changes a group's offset only while a pointer is down on that group (a
\* press not yet followed by a release), and then the offset is the one the group had at
\* the press plus the pointer's displacement since the press, clamped.
C22_MoveOnlyWhilePressed ==
    dhist.ev = "move" =>
        \A g \in Groups :
            nodes[g] # dhist.before[g] =>
                /\ held[g].down
                /\ nodes[g] = ClampGroupBoxNode(SetTranslate(dhist.before[g],
                        Add(held[g].offset.x, Add(dhist.c.x, -held[g].at.x)),
                        Add(held[g].offset.y, Add(dhist.c.y, -held[g].at.y))))

\* The listeners of all three groups are attached / detached
AllListening == \A g \in Groups : Listening(dragEnabled, g)
NoneListening == \A g \in Groups : ~Listening(dragEnabled, g)

\* C23: setDragEnabled(false) detaches the listeners of all three groups and, until
\* setDragEnabled(true) is called, no pointer or touch event changes a group's offset;
\* setDragEnabled(true) attaches them again for all three: a press is heard.
C23_SwitchForAllGroups ==
    /\ (dhist.ev = "setDragEnabled" /\ dhist.on = "false") => NoneListening
    /\ (dhist.ev = "setDragEnabled" /\ dhist.on = "true") => AllListening
    /\ (dhist.ev \in {"press", "move", "release"} /\ dhist.on = "false") =>
            nodes = dhist.before
    /\ (dhist.ev = "press" /\ dhist.on = "true") => drags[dhist.g].dragging

\* C23 witness: a group was being dragged when dragging was switched off; the pointer has
\* moved away from where it went down and no offset has changed
C23_Witness ==
    /\ dhist.ev = "move" /\ dhist.on = "false"
    /\ \E g \in Groups : held[g].down /\ drags[g].dragging /\ dhist.c # held[g].at
    /\ nodes = dhist.before

CompensationExact(e, tx, ty, old, s) ==
    LET neu == CenterOfNode([e EXCEPT !.tr = Part(tx, ty), !.sc = s])
        ex(a, b) == Add(a, b) = a + b
    IN  /\ ex(old.x, -neu.x) /\ ex(tx, old.x - neu.x)
        /\ ex(old.y, -neu.y) /\ ex(ty, old.y - neu.y)

\* The last scale write computed its compensation without rounding
ScaleWriteExact ==
    \/ /\ hist.op = "scale"
       /\ CompensationExact(hist.before, ParseTranslate(hist.before).x,
                            ParseTranslate(hist.before).y, CenterOfNode(hist.before), hist.x)
    \/ /\ hist.op = "scaleFrame"
       /\ CompensationExact(hist.before, meta.tx, meta.ty, meta.old, hist.x)

C25_SameViewportWritesNothing ==
    (rhist.op = "updateRadialScale" /\ viewport = rhist.prevScaledAt) =>
        /\ rad.writes = 0
        /\ rad.props = rhist.before

\* C25 witness: the ring is on the page with its sizes written, and updateRadialScale has
\* been called again in the same window
C25_Witness ==
    /\ rhist.op = "updateRadialScale" /\ viewport = rhist.prevScaledAt
    /\ rad.el /\ rad.props.centerBase > 0 /\ rad.props.boxW > 0
    /\ rad.writes = 0

\* The size s written for the configured minimum lo and maximum hi follows the rule for
\* the width w
SizeByRule(s, lo, hi, w) ==
    /\ w >= DESKTOP_W => s = hi * SizeUnit
    /\ w <= MIN_W => s = lo * SizeUnit
    /\ (MIN_W < w /\ w < DESKTOP_W) =>
            (s - lo * SizeUnit) * (DESKTOP_W - MIN_W) = (hi - lo) * (w - MIN_W) * SizeUnit
    /\ lo * SizeUnit <= s /\ s <= hi * SizeUnit

\* C26: the sizes updateRadialScale has written are the desktop sizes at or above the
\* desktop threshold, the minimum sizes at or below the minimum threshold and the linear
\* interpolation in between; each lies between its minimum and maximum and does not
\* decrease when the width grows.
C26_SizesByBreakpointRule ==
    rad.el =>
        /\ SizeByRule(rad.props.centerBase, originalMinSizes.center, originalSizes.center,
                      rhist.scaledAt.w)
        /\ \A i \in Satellites :
                SizeByRule(rad.props.btnBase[i], originalMinSizes.buttons[i],
                           originalSizes.buttons[i], rhist.scaledAt.w)
        /\ (rhist.op # "none" /\ rhist.prevScaledAt.w <= rhist.scaledAt.w) =>
                /\ rhist.before.centerBase <= rad.props.centerBase
                /\ \A i \in Satellites : rhist.before.btnBase[i] <= rad.props.btnBase[i]
        /\ (rhist.op # "none" /\ rhist.prevScaledAt.w >= rhist.scaledAt.w) =>
                /\ rhist.before.centerBase >= rad.props.centerBase
                /\ \A i \in Satellites : rhist.before.btnBase[i] >= rad.props.btnBase[i]

\* C26 witness: the window has grown to a width between the two thresholds and the sizes
\* have grown to values strictly between their minimum and maximum
C26_Witness ==
    /\ rad.el /\ rhist.op = "resize"
    /\ MIN_W < rhist.scaledAt.w /\ rhist.scaledAt.w < DESKTOP_W
    /\ rhist.prevScaledAt.w < rhist.scaledAt.w
    /\ rhist.before.centerBase < rad.props.centerBase
    /\ rad.props.centerBase < originalSizes.center * SizeUnit

\* Centre of satellite i as placed by --x and --y (quarter pixels)
PlacedCentre(i) ==
    XY(rad.props.geo.x[i] + HalfButton(computed, i), rad.props.geo.y[i] + HalfButton(computed, i))

\* C27: updateGeometry places the six satellites so that the centres of neighbours are
\* exactly D_i = b_i + b_{i+1} - kiss apart.
C27_NeighboursAtKissDistance ==
    (rad.el /\ rad.centerBtn /\ rad.btnEls) =>
        \A i \in 1..5 :
            (PlacedCentre(i).x - PlacedCentre(i + 1).x) * (PlacedCentre(i).x - PlacedCentre(i + 1).x)
            + (PlacedCentre(i).y - PlacedCentre(i + 1).y) * (PlacedCentre(i).y - PlacedCentre(i + 1).y)
                = NeighbourDistance(computed, i) * NeighbourDistance(computed, i)

\* C30: a step changes currentGroupScale only if it is the final frame (t = 1) of a scale
\* animation that is not cancelled and whose token is the controller's latest counter
\* value, and then it sets the animation's target; a frame of a cancelled or superseded
\* animation leaves currentGroupScale alone.
C30_OnlyLatestCommitsOnFinalFrame ==
    [][ /\ currentGroupScale' # currentGroupScale =>
              /\ frameQ # <<>>
              /\ Head(frameQ).k = "scale"
              /\ LET an == anims[Head(frameQ).id]
                 IN  /\ now - an.start >= an.duration
                     /\ ~an.cancelled
                     /\ an.token = scaleAnimCounter
                     /\ currentGroupScale' = an.targetScale
                     /\ anims'[an.token].settled
        /\ \A a \in Tokens :
              (anims[a].cancelled \/ a # scaleAnimCounter) =>
                  (currentGroupScale' # currentGroupScale => anims'[a] = anims[a])
      ]_vars

\* C30 witness: the first animation ran a frame and was cancelled by a second request
\* without having changed currentGroupScale; the second ran its final frame and committed
\* its target
C30_Witness ==
    /\ Len(anims) = 2
    /\ anims[1].cancelled /\ anims[1].frames >= 1
    /\ anims[2].startScale = anims[1].startScale
    /\ anims[2].resolvedBy = "frame"
    /\ currentGroupScale = anims[2].targetScale
    /\ currentGroupScale # anims[2].startScale

\* C28: when a target the method needs is absent, the method returns without throwing
\* and without writing anything.
C28_AbsentTargetIsNoOp ==
    (dom.op # "none" /\ \E x \in dom.needs : ~dom.has[x]) =>
        /\ ~dom.threw
        /\ dom.written = <<>>

\* C29: however many resize, orientation-change or visual-viewport events arrive between
\* two frames, the recomputation they trigger runs at most once per frame.
C29_RecomputedOncePerFrame == rhist.runs <= 1

\* C31: an animation that is cancelled has no frame callback left, neither requested nor in
\* the frame being rendered, and from then on no step of it runs: its frame count stays
\* what it was when it was cancelled, so it writes no group's transform any more.
C31_CancelledRunsNoFrame ==
    [][ /\ \A a \in 1..Len(anims') :
              anims'[a].cancelled =>
                  /\ ~InSeq(raf', RafCb("scale", a))
                  /\ ~InSeq(frameQ', RafCb("scale", a))
        /\ \A a \in Tokens :
              anims[a].cancelled =>
                  /\ anims'[a].frames = anims[a].frames
                  /\ ~(frameQ # <<>> /\ Head(frameQ) = RafCb("scale", a) /\ frameQ' = Tail(frameQ))
      ]_vars

\* C31 witness: the first animation ran a frame and was cancelled; frames were rendered
\* after that, in which only the second animation ran and wrote the groups' scale
C31_Witness ==
    /\ Len(anims) = 2
    /\ anims[1].cancelled /\ anims[1].frames = 1
    /\ anims[2].frames >= 2
    /\ now > anims[2].start + FrameMs

\* C32: the three tweens of a step are started together and run side by side; while one
\* of them is unresolved the sequence is still awaiting the step: no settle or hold of the
\* step has begun, its state has not been entered, logo:midway has not been emitted for
\* the step towards Pose3, and no tween of the following step has started.
C32_StepAwaitsAllThreeTweens ==
    \A k \in Steps :
        /\ Started(k) => \A g \in Groups : tw[k][g] \in {"running", "resolved"}
        /\ (Started(k) /\ ~Completed(k)) =>
              /\ pc = [at |-> "tween", step |-> k]
              /\ Len(visited) < k + 2
              /\ k = 2 => midway = 0
              /\ \A j \in Steps : j > k => ~Started(j)
              /\ \A tm \in timers : tm.k # "sleep"

\* C32 witness: in the step towards Pose3 the first tween has resolved while the third is
\* still running, and the sequence is waiting
C32_Witness ==
    /\ pc = [at |-> "tween", step |-> 2]
    /\ tw[2][1] = "resolved" /\ tw[2][3] = "running"
    /\ midway = 0 /\ ~Started(3)

\* runPreloader starts the tweens of step k in this step of the model
StartsStep(k) == ~Started(k) /\ \E g \in Groups : tw'[k][g] # "none"

\* C33: the tweens of a step start only when the step before it (the pack step for the
\* wiggle) has been followed by two rendering-frame waits and then by its hold delay: the
\* hold begins in the callback of the second frame wait, the second wait in the callback
\* of the first, and the first when the step before has completed.
C33_SettleAndHoldAfterStep ==
    [][ /\ \A k \in Steps :
              StartsStep(k) =>
                  /\ pc.at = "hold"
                  /\ pc.step = k - 1
                  /\ \E tm \in timers : tm.k = "sleep" /\ tm.due <= now
        /\ (pc'.at = "hold" /\ pc.at # "hold") =>
              /\ pc.at = "settle2" /\ Runs(RafCb("next", 0))
              /\ [k |-> "sleep", due |-> now + Hold(pc.step)] \in timers'
        /\ (pc'.at = "settle2" /\ pc.at # "settle2") =>
              pc.at = "settle1" /\ Runs(RafCb("next", 0))
      ]_vars

\* C34: animateTranslate invokes onComplete exactly once per tween: never on a frame
\* with t < 1, and on the last frame after the offset has been snapped to start + delta
\* and before the promise is resolved.
C34_OnCompleteOnceAfterSnap ==
    /\ tween.status = "running" =>
          /\ tween.done = 0
          /\ CallsOf("onComplete", tween.trace) = {}
    /\ tween.status = "resolved" =>
          /\ tween.done = 1
          /\ \E i \in 1..Len(tween.trace) :
                /\ CallsOf("onComplete", tween.trace) = {i}
                /\ tween.trace[i].tr = XY(Add(tween.sx, tween.dx), Add(tween.sy, tween.dy))
                /\ \E j \in CallsOf("setTranslate", tween.trace) :
                      /\ j < i
                      /\ tween.trace[j].tr = tween.trace[i].tr
                      /\ \A m \in CallsOf("setTranslate", tween.trace) : m <= j
                /\ CallsOf("resolve", tween.trace) # {}
                /\ \A r \in CallsOf("resolve", tween.trace) : i < r

\* C34 witness: a tween that took an intermediate frame (t < 1), was overwritten by
\* another caller and then ran its last frame
C34_Witness ==
    /\ hist.op = "frame" /\ tween.status = "resolved"
    /\ tween.pt > 0 /\ tween.pt < 1000
    /\ hist.pop \in {"set", "inc"}
    /\ Len(tween.trace) = 6 /\ tween.done = 1

\* C35: for any interleaving of animated and immediate setLogoCompact calls, once every
\* request has settled and no scale animation is in flight, currentGroupScale is 0.5 when
\* logoCompact is true and 1 when it is false.
C35_LatestCompactRequestWins ==
    (calls # <<>> /\ \A a \in Tokens : Resolved(a) /\ ~ScalePending(a)) =>
        currentGroupScale = TargetScale(logoCompact)

\* C36: clampGroupBox is idempotent for every position and size of the box, a box
\* larger than the safe rectangle included: a second call right after a first one changes
\* nothing.
C36_ClampIdempotent ==
    (hist.op = "clamp" /\ hist.pop = "clamp") => el = hist.before

\* The clamp rectangle: the window less the safe-area padding
SafeRect ==
    [left |-> SvgRect.left + SafeAreaPadding, right |-> SvgRect.right - SafeAreaPadding,
     top |-> SvgRect.top + SafeAreaPadding, bottom |-> SvgRect.bottom - SafeAreaPadding]

\* The three boxes fit side by side inside the safe rectangle
FitSideBySide(ns) ==
    /\ Width(ns[1]) + Width(ns[2]) + Width(ns[3]) <= SafeRect.right - SafeRect.left
    /\ \A g \in Groups : Height(ns[g]) <= SafeRect.bottom - SafeRect.top

\* C37: on both breakpoints, when the three groups fit side by side inside the safe
\* rectangle, every anchor target puts the group's box inside the clamp rectangle:
\* repositionGroupsToAnchors leaves each group centred on its target, and clampGroupBox
\* does not move it.
C37_AnchorsInsideClampRect ==
    (dhist.ev = "reposition" /\ FitSideBySide(dhist.before)) =>
        \A g \in Groups :
            /\ CenterOfNode(nodes[g]) = AnchorTargetsOfNodes(dhist.before)[g]
            /\ InsideSafeRect(nodes[g])
            /\ ClampGroupBoxNode(nodes[g]) = nodes[g]

\* C37 witness: on the phone, three groups of different sizes that fit in a row have
\* been moved from spread-out offsets to their anchors
C37_Witness ==
    /\ dhist.ev = "reposition" /\ FitSideBySide(dhist.before)
    /\ IsMobile(viewport)
    /\ dhist.before[3].tr = Part(1400, -100)
    /\ Width(nodes[1]) < Width(nodes[2])
    /\ nodes # dhist.before

\* C38: at the step in which runPreloader reaches Anchored, each group's centre is at its
\* anchor target for the window size of that moment, also when resize events were
\* handled while the sequence was running.
\* Every resize event delivered so far has been handled: its frame callback has run
ResizesHandled == ~InSeq(raf, RafCb("resize", 0)) /\ ~InSeq(frameQ, RafCb("resize", 0))

C38_AnchoredAtCurrentTargets ==
    [][ (pc.at # "done" /\ pc'.at = "done" /\ ResizesHandled) =>
            \A g \in Groups : centre'[g] = [pose |-> "anchor", vp |-> viewport']
      ]_vars

\* C39: after setTarget has been given a valid date in the future, the digits keep being
\* updated every second until the target is reached, also when the previous target had
\* been reached and the timer had stopped itself at zero: every second that passes before
\* the target makes the interval's tick due.
C39_CountsDownAfterSetTarget ==
    [][ (dialog.op = "setTarget" /\ dialog'.clock = dialog.clock + 1
                                 /\ dialog.target > dialog'.clock) => dialog'.due
      ]_vars

====
